---- MODULE Spec2Model ----
(***************************************************************************)
(* Verification model of bun-typed-sqlite (src/src/class.ts).              *)
(*                                                                         *)
(*  - AdvancedConnectionPool: connections, availableConnections,           *)
(*    waitingQueue, preparedStatements, queryCache, stats and the two      *)
(*    interval timers, driven by acquire / release / close and the timer   *)
(*    callbacks.  JavaScript runs one task at a time: a handler is one     *)
(*    atomic action, except that acquire() suspends at                     *)
(*    `await this.createConnection()` and resumes in a microtask.          *)
(*  - Table: update / delete / bulkInsert through executeWithErrorWrapper. *)
(*  - DatabaseManager.executePooledTransaction through executeWithPool.    *)
(***************************************************************************)
EXTENDS Integers, Sequences, FiniteSets, TLC

\* ------------------------------------------------------------------ bounds
MaxConns == 1          \* largest config.maxConnections explored
MaxRequests == 3       \* number of acquire() calls issued
MaxTime == 1           \* last value of the clock Date.now()
IdleTimeout == 0       \* config.idleTimeout, in clock ticks
MaxConnectionAge == 0  \* config.maxConnectionAge, in clock ticks
MaxCacheSize == 2      \* largest config.maxCacheSize explored
MaxTtl == 1            \* largest ttl passed to setCachedQuery
MaxRows == 3           \* rows in the table before the first call
MaxRecords == 2        \* records passed to one bulkInsert
MaxVal == 2            \* column values are 1..MaxVal
MaxKeys == 2           \* own keys of a where-clause
MaxOps == 2            \* operations of one pooled transaction
MaxPage == 3           \* largest page asked of paginate
MaxPageSize == 2       \* largest pageSize asked of paginate

VARIABLES
    now,                    \* Date.now()
    config,                 \* AdvancedConnectionPool.config
    connections,            \* Map id -> PooledConnection
    availableConnections,   \* string[] of ids
    waitingQueue,           \* queued waiters, identified by the acquire() call
    preparedStatements,     \* Map key -> prepared statement
    queryCache,             \* Map key -> {timestamp, ttl}, in insertion order
    stats,                  \* PoolStats
    cleanupInterval,        \* TRUE while the reaper interval is armed
    healthCheckInterval,    \* TRUE while the health-check interval is armed
    req,                    \* the acquire() calls: promise state and connection
    timers,                 \* acquire() calls whose setTimeout is still pending
    nextConn,               \* next fresh connection id
    rows,                   \* the table in the engine: its rows in rowid order
    call,                   \* the Table call in progress or just finished
    schema,                 \* the schema type of column a
    db,                     \* what pooled transactions have committed, in order
    openTx,                 \* per connection: the transaction open on it
    tx,                     \* the pooled transaction that ran last
    pools,                  \* AdvancedConnectionPool.pools: the paths under which
                            \* the pool is registered
    closeAll,               \* where the call of closeAllPools is
    manager,                \* BunSQLiteManager: its fields db and config
    files,                  \* the database file and the backup file
    result,                 \* the BunSQLiteManager operation that ran last
    catalog,                \* DatabaseManager: the tables of its database
    last,                   \* the DatabaseManager call that ran last
    work,                   \* executeWithPool: per call, where queryFn's work is
    statement               \* the getPreparedStatement call that ran last

poolVars == <<now, config, connections, availableConnections, waitingQueue,
              preparedStatements, queryCache, stats, cleanupInterval,
              healthCheckInterval, req, timers, nextConn>>

tableVars == <<rows, call, schema>>

txVars == <<db, openTx, tx>>

registryVars == <<pools, closeAll>>

managerVars == <<manager, files, result>>

dbmVars == <<catalog, last, work, statement>>

vars == <<poolVars, tableVars, txVars, registryVars, managerVars, dbmVars>>

Requests == 1..MaxRequests
\* initialize() opens at most maxConnections connections and every acquire()
\* at most one more
MaxCreated == MaxConns + MaxRequests
NoConn == 0
\* the callers of the specification that exercises the caches: one to hold
\* the connection and one to queue
CacheClients == {1, 2}
StmtKeys == {"s1"}
Queries == {"q1"}
CacheKeys == {"k1"}

\* ------------------------------------------------------------ array helpers
\* Array.prototype.splice(indexOf(x), 1): removes the first occurrence only
RECURSIVE RemoveFirst(_, _)
RemoveFirst(s, x) ==
    IF s = <<>> THEN <<>>
    ELSE IF Head(s) = x THEN Tail(s)
    ELSE <<Head(s)>> \o RemoveFirst(Tail(s), x)

\* Array.prototype.pop(): drops the last element, if any
Pop(s) == IF s = <<>> THEN <<>> ELSE SubSeq(s, 1, Len(s) - 1)

Range(s) == {s[i] : i \in 1..Len(s)}

Restrict(f, S) == [x \in S |-> f[x]]

\* ------------------------------------------------------------------- pool
\* The part of the pool a handler reads and writes, as one record
Pool == [connections |-> connections, available |-> availableConnections,
         queue |-> waitingQueue, stats |-> stats]

UpdateStats(P) ==
    LET total  == Cardinality(DOMAIN P.connections)
        active == Cardinality({c \in DOMAIN P.connections : P.connections[c].inUse})
    IN [P EXCEPT !.stats = [@ EXCEPT !.totalConnections = total,
                                     !.activeConnections = active,
                                     !.idleConnections = total - active,
                                     !.waitingClients = Len(P.queue)]]

\* createConnection(): a fresh, idle connection appended to `available`
CreateConnection(P, id) ==
    UpdateStats([P EXCEPT
        !.connections = [c \in DOMAIN P.connections \cup {id} |->
                            IF c = id
                            THEN [createdAt |-> now, lastUsed |-> now, inUse |-> FALSE]
                            ELSE P.connections[c]],
        !.available = Append(@, id),
        !.stats = [@ EXCEPT !.totalCreated = @ + 1]])

DestroyConnection(P, id) ==
    IF id \notin DOMAIN P.connections THEN P
    ELSE UpdateStats([P EXCEPT
            !.connections = Restrict(@, DOMAIN P.connections \ {id}),
            !.available = RemoveFirst(@, id),
            !.stats = [@ EXCEPT !.totalDestroyed = @ + 1]])

RECURSIVE DestroyAll(_, _)
DestroyAll(P, S) ==
    IF S = {} THEN P
    ELSE LET id == CHOOSE x \in S : \A y \in S : x <= y
         IN DestroyAll(DestroyConnection(P, id), S \ {id})

SetPool(P) ==
    /\ connections' = P.connections
    /\ availableConnections' = P.available
    /\ waitingQueue' = P.queue
    /\ stats' = P.stats

\* No acquire() is suspended at its await: the microtask queue is empty, so
\* the event loop may run a timer callback.
NoMicrotask == \A r \in Requests : req[r].st # "creating"

InitStats == [totalConnections |-> 0, activeConnections |-> 0, idleConnections |-> 0,
              waitingClients |-> 0, totalCreated |-> 0, totalDestroyed |-> 0,
              totalAcquired |-> 0, totalReleased |-> 0, totalErrors |-> 0]

EmptyPool == [connections |-> <<>>, available |-> <<>>, queue |-> <<>>,
              stats |-> InitStats]

\* initialize(): open minConnections connections
RECURSIVE Initialize(_, _, _)
Initialize(P, i, n) ==
    IF i > n THEN P ELSE Initialize(CreateConnection(P, i), i + 1, n)

\* `undefined`, as a value of the calling program
Undefined == [t |-> "undefined", v |-> 0]

\* the Table call record while no call has been made
\* paginate without orderBy
NoOrder == [column |-> "", direction |-> ""]

\* the Table call record while no call has been made.  engineCalls counts the
\* callbacks that reached the engine, stage the executeWithErrorWrapper a
\* call is in, wrote the records the calls before this one inserted, failing
\* the batches of an import whose insert throws, and imported, skipped and
\* errors the stats of importFromJson; params are the parameters handed to
\* the statement.
NoCall == [op |-> "none", where |-> Undefined, values |-> Undefined,
           records |-> <<>>, batchSize |-> 1, phase |-> "idle", retries |-> 0,
           outcomes |-> <<>>, insertedIds |-> <<>>, error |-> "", before |-> <<>>,
           page |-> 1, pageSize |-> 1, orderBy |-> NoOrder, stage |-> 1,
           engineCalls |-> 0, data |-> <<>>, total |-> 0, totalPages |-> 0,
           wrote |-> <<>>, conflictResolution |-> "", failing |-> {},
           imported |-> 0, skipped |-> 0, errors |-> <<>>, params |-> <<>>]

\* no Table call is made while the pool is exercised
NoTable == rows = <<>> /\ call = NoCall /\ schema = "number"

\* the pooled-transaction record while none has run
NoTx == [ran |-> FALSE, r |-> 0, conn |-> NoConn, n |-> 0,
         log |-> <<>>, threw |-> FALSE, error |-> <<>>, before |-> <<>>]

\* a table without rows; a table maps the key of each row to its value
EmptyTable == [k \in {} |-> 0]

\* a database without tables; tables map each table name to the table
NoTables == [t \in {} |-> EmptyTable]

\* a file that does not exist, and one that holds the given tables
Absent == [exists |-> FALSE, tables |-> NoTables]

File(tables) == [exists |-> TRUE, tables |-> tables]

\* the record of the last BunSQLiteManager operation while none has run
NoResult == [op |-> "none", args |-> <<>>, threw |-> FALSE, error |-> "",
             before |-> [db |-> "none", config |-> "none",
                         database |-> Absent, backup |-> Absent]]

\* a BunSQLiteManager on which connect() was never called; no file yet
NoManager ==
    /\ manager = [db |-> "none", config |-> "none"]
    /\ files = [database |-> Absent, backup |-> Absent]
    /\ result = NoResult

\* the record of the last DatabaseManager call while none has run
NoLast == [op |-> "none", args |-> <<>>, threw |-> FALSE, error |-> ""]

\* getPreparedStatement not called yet
NoStatement == [key |-> "", query |-> "", db |-> 0,
                returned |-> [query |-> "", conn |-> 0]]

\* queryFn not called yet
NoWork == [st |-> "none", conn |-> 0]

\* a DatabaseManager over an empty database, and no executeWithPool call
NoDbm ==
    /\ catalog = NoTables
    /\ last = NoLast
    /\ work = [r \in 1..MaxRequests |-> NoWork]
    /\ statement = NoStatement

\* `private static pools = new Map()`: nothing registered, and
\* closeAllPools not called
NoRegistry == pools = {} /\ closeAll = "none"

\* nothing committed, no transaction open, none run
TxIdle ==
    /\ db = <<>>
    /\ openTx = [id \in 1..MaxCreated |-> [open |-> FALSE, writes |-> <<>>]]
    /\ tx = NoTx

\* The pool after `new AdvancedConnectionPool(...)` (as initPool builds it:
\* nothing opened, no interval armed) or after `create(...)`, which also runs
\* initialize().  maxs are the values of maxConnections and cacheCfgs the cache
\* settings explored.
PoolInit(maxs, cacheCfgs) ==
    /\ now = 0
    /\ \E mx \in maxs, mn \in 0..MaxConns, cc \in cacheCfgs :
          /\ mn <= mx
          /\ config = [maxConnections |-> mx, minConnections |-> mn,
                       idleTimeout |-> IdleTimeout,
                       maxConnectionAge |-> MaxConnectionAge,
                       enableHealthChecks |-> TRUE,
                       enableQueryCache |-> cc.enableQueryCache,
                       enableStatementPooling |-> cc.enableStatementPooling,
                       maxCacheSize |-> cc.maxCacheSize]
    /\ \E initialized \in BOOLEAN :
          LET n == IF initialized THEN config.minConnections ELSE 0
              P == Initialize(EmptyPool, 1, n)
          IN /\ connections = P.connections
             /\ availableConnections = P.available
             /\ waitingQueue = P.queue
             /\ stats = P.stats
             /\ nextConn = n + 1
             /\ cleanupInterval = initialized
             /\ healthCheckInterval = (initialized /\ config.enableHealthChecks)
             \* minConnections is read by initialize() and by the reaper that
             \* initialize() arms, and by nothing else
             /\ (~initialized => config.minConnections = 0)
    /\ preparedStatements = <<>>
    /\ queryCache = <<>>
    /\ req = [r \in Requests |-> [st |-> "idle", conn |-> NoConn]]
    /\ timers = {}
    /\ NoTable
    /\ TxIdle
    /\ NoManager
    /\ NoDbm

\* ---------------------------------------------------------------- acquire
UnderLimitInclusive(P) == Cardinality(DOMAIN P.connections) <= config.maxConnections

\* `this.connections.size < this.config.maxConnections`
UnderLimit(P) == Cardinality(DOMAIN P.connections) < config.maxConnections

\* requests are issued in the order of their ids
CanIssue(r) == req[r].st = "idle" /\ (IF r = 1 THEN TRUE ELSE req[r - 1].st # "idle")

\* acquire(), first branch: a connection is available
AcquireAvailable(r) ==
    /\ UNCHANGED <<tableVars, txVars, registryVars, managerVars, dbmVars>>
    /\ CanIssue(r)
    /\ availableConnections # <<>>
    /\ LET id == Head(availableConnections)
       IN IF id \in DOMAIN connections
          THEN /\ SetPool(UpdateStats([Pool EXCEPT
                      !.available = Tail(@),
                      !.connections[id] = [@ EXCEPT !.inUse = TRUE, !.lastUsed = now],
                      !.stats = [@ EXCEPT !.totalAcquired = @ + 1]]))
               /\ req' = [req EXCEPT ![r] = [st |-> "holding", conn |-> id]]
          \* connections.get(id)! is undefined: the executor throws after the
          \* shift and the promise never settles
          ELSE /\ SetPool([Pool EXCEPT !.available = Tail(@)])
               /\ req' = [req EXCEPT ![r] = [st |-> "stuck", conn |-> NoConn]]
    /\ UNCHANGED <<now, config, preparedStatements, queryCache, cleanupInterval,
                   healthCheckInterval, timers, nextConn>>

\* acquire(), second branch up to `await this.createConnection()`: the
\* connection is created, left idle in `available`, and the call suspends.
\* `ok = FALSE` is the engine failing to open the database.
AcquireCreate(r) ==
    /\ UNCHANGED <<tableVars, txVars, registryVars, managerVars, dbmVars>>
    /\ CanIssue(r)
    /\ availableConnections = <<>>
    /\ UnderLimit(Pool)
    /\ \E ok \in BOOLEAN :
          IF ok
          THEN /\ SetPool(CreateConnection(Pool, nextConn))
               /\ nextConn' = nextConn + 1
               /\ req' = [req EXCEPT ![r] = [st |-> "creating", conn |-> nextConn]]
          ELSE /\ req' = [req EXCEPT ![r] = [st |-> "creating", conn |-> NoConn]]
               /\ UNCHANGED <<connections, availableConnections, waitingQueue,
                              stats, nextConn>>
    /\ UNCHANGED <<now, config, preparedStatements, queryCache, cleanupInterval,
                   healthCheckInterval, timers>>

\* acquire(), second branch after the await
AcquireResume(r) ==
    /\ UNCHANGED <<tableVars, txVars, registryVars, managerVars, dbmVars>>
    /\ req[r].st = "creating"
    /\ LET id == req[r].conn
       IN IF id = NoConn
          THEN /\ stats' = [stats EXCEPT !.totalErrors = @ + 1]
               /\ req' = [req EXCEPT ![r] = [st |-> "failed", conn |-> NoConn]]
               /\ UNCHANGED <<connections, availableConnections, waitingQueue>>
          ELSE /\ SetPool(UpdateStats([Pool EXCEPT
                      !.connections = IF id \in DOMAIN connections
                                      THEN [@ EXCEPT ![id].inUse = TRUE]
                                      ELSE @,
                      !.available = Pop(@),
                      !.stats = [@ EXCEPT !.totalAcquired = @ + 1]]))
               /\ req' = [req EXCEPT ![r] = [st |-> "holding", conn |-> id]]
    /\ UNCHANGED <<now, config, preparedStatements, queryCache, cleanupInterval,
                   healthCheckInterval, timers, nextConn>>

\* acquire(), third branch: queue the waiter and arm its timeout
AcquireWait(r) ==
    /\ UNCHANGED <<tableVars, txVars, registryVars, managerVars, dbmVars>>
    /\ CanIssue(r)
    /\ availableConnections = <<>>
    /\ ~UnderLimit(Pool)
    /\ SetPool(UpdateStats([Pool EXCEPT !.queue = Append(@, r)]))
    /\ req' = [req EXCEPT ![r] = [st |-> "waiting", conn |-> NoConn]]
    /\ timers' = timers \cup {r}
    /\ UNCHANGED <<now, config, preparedStatements, queryCache, cleanupInterval,
                   healthCheckInterval, nextConn>>

TimeoutQueueHead(q, r) == Tail(q)

\* the setTimeout callback of acquire(): findIndex by the waiter's own resolve
TimeoutQueue(q, r) == SelectSeq(q, LAMBDA w : w # r)

AcquireTimeout(r) ==
    /\ UNCHANGED <<tableVars, txVars, registryVars, managerVars, dbmVars>>
    /\ r \in timers
    /\ NoMicrotask
    /\ timers' = timers \ {r}
    /\ IF r \in Range(waitingQueue)
       THEN /\ SetPool(UpdateStats([Pool EXCEPT !.queue = TimeoutQueue(@, r)]))
            /\ req' = [req EXCEPT ![r] = [st |-> "timedout", conn |-> NoConn]]
       ELSE UNCHANGED <<connections, availableConnections, waitingQueue, stats, req>>
    /\ UNCHANGED <<now, config, preparedStatements, queryCache, cleanupInterval,
                   healthCheckInterval, nextConn>>

\* ---------------------------------------------------------------- release
NextWaiterLast(q) == q[Len(q)]

\* `this.waitingQueue.shift()`
NextWaiter(q) == Head(q)

\* `Date.now() - connection.createdAt > this.config.maxConnectionAge`
TooOld(c) == now - c.createdAt > config.maxConnectionAge

\* release(connection) by the request that holds it
ReleaseConnection(r) ==
    /\ req[r].st = "holding"
    /\ LET id == req[r].conn
       IN IF id \notin DOMAIN connections
          THEN /\ req' = [req EXCEPT ![r] = [st |-> "released", conn |-> NoConn]]
               /\ UNCHANGED <<connections, availableConnections, waitingQueue, stats>>
          ELSE LET P1 == [Pool EXCEPT
                             !.connections[id] = [@ EXCEPT !.inUse = FALSE, !.lastUsed = now],
                             !.stats = [@ EXCEPT !.totalReleased = @ + 1]]
               IN IF TooOld(connections[id])
                  THEN /\ SetPool(DestroyConnection(P1, id))
                       /\ req' = [req EXCEPT ![r] = [st |-> "released", conn |-> NoConn]]
                  ELSE IF waitingQueue # <<>>
                  THEN LET w == NextWaiter(waitingQueue)
                       IN /\ SetPool(UpdateStats([P1 EXCEPT
                                 !.queue = SelectSeq(@, LAMBDA x : x # w),
                                 !.connections[id] = [@ EXCEPT !.inUse = TRUE],
                                 !.stats = [@ EXCEPT !.totalAcquired = @ + 1]]))
                          /\ req' = [req EXCEPT ![r] = [st |-> "released", conn |-> NoConn],
                                                ![w] = [st |-> "holding", conn |-> id]]
                  ELSE /\ SetPool(UpdateStats([P1 EXCEPT !.available = Append(@, id)]))
                       /\ req' = [req EXCEPT ![r] = [st |-> "released", conn |-> NoConn]]
    /\ UNCHANGED <<now, config, preparedStatements, queryCache, cleanupInterval,
                   healthCheckInterval, timers, nextConn>>

Release(r) ==
    /\ ReleaseConnection(r)
    /\ UNCHANGED <<tableVars, txVars, registryVars, managerVars, dbmVars>>

\* ----------------------------------------------------------------- timers
\* cleanupIdleConnections(): the ids are collected first, then destroyed
IdleIds(P) ==
    {id \in DOMAIN P.connections :
        /\ ~P.connections[id].inUse
        /\ now - P.connections[id].lastUsed > config.idleTimeout
        /\ Cardinality(DOMAIN P.connections) > config.minConnections}

\* cleanupExpiredCache()
ExpireCache(cache) ==
    SelectSeq(cache, LAMBDA e : ~(now - e.timestamp > e.ttl))

\* the cleanup interval callback
Reap ==
    /\ UNCHANGED <<tableVars, txVars, registryVars, managerVars, dbmVars>>
    /\ cleanupInterval
    /\ NoMicrotask
    /\ SetPool(DestroyAll(Pool, IdleIds(Pool)))
    /\ queryCache' = ExpireCache(queryCache)
    /\ UNCHANGED <<now, config, preparedStatements, cleanupInterval,
                   healthCheckInterval, req, timers, nextConn>>

\* performHealthChecks(): `bad` are the idle connections whose SELECT 1 throws
HealthCheck ==
    /\ UNCHANGED <<tableVars, txVars, registryVars, managerVars, dbmVars>>
    /\ healthCheckInterval
    /\ NoMicrotask
    /\ \E bad \in SUBSET {id \in DOMAIN connections : ~connections[id].inUse} :
          SetPool(DestroyAll(Pool, bad))
    /\ UNCHANGED <<now, config, preparedStatements, queryCache, cleanupInterval,
                   healthCheckInterval, req, timers, nextConn>>

\* time passes
Tick ==
    /\ UNCHANGED <<tableVars, txVars, registryVars, managerVars, dbmVars>>
    /\ now < MaxTime
    /\ now' = now + 1
    /\ UNCHANGED <<config, connections, availableConnections, waitingQueue,
                   preparedStatements, queryCache, stats, cleanupInterval,
                   healthCheckInterval, req, timers, nextConn>>

\* ------------------------------------------------------------------ close
CloseKeepsResults ==
    /\ UNCHANGED <<tableVars, txVars>>
    /\ cleanupInterval' = FALSE
    /\ healthCheckInterval' = FALSE
    /\ req' = [r \in Requests |->
                  IF r \in Range(waitingQueue)
                  THEN [st |-> "closed", conn |-> NoConn]
                  ELSE req[r]]
    /\ waitingQueue' = <<>>
    /\ connections' = <<>>
    /\ availableConnections' = <<>>
    /\ preparedStatements' = <<>>
    /\ UNCHANGED <<now, config, stats, timers, nextConn, queryCache>>

\* close(), on the pool's own fields
Close ==
    /\ UNCHANGED <<tableVars, txVars>>
    /\ cleanupInterval' = FALSE
    /\ healthCheckInterval' = FALSE
    /\ req' = [r \in Requests |->
                  IF r \in Range(waitingQueue)
                  THEN [st |-> "closed", conn |-> NoConn]
                  ELSE req[r]]
    /\ waitingQueue' = <<>>
    /\ connections' = <<>>
    /\ availableConnections' = <<>>
    /\ preparedStatements' = <<>>
    /\ queryCache' = <<>>
    /\ UNCHANGED <<now, config, stats, timers, nextConn>>

\* closePool() of the manager that holds the pool: the registry is not
\* touched
ClosePool == Close /\ UNCHANGED <<registryVars, managerVars, dbmVars>>

\* ----------------------------------------------------------------- caches
\* getPreparedStatement(key, query, db), db being the connection that the
\* caller r holds
GetPreparedStatement(r, key, query) ==
    /\ UNCHANGED <<tableVars, txVars, registryVars, managerVars, catalog, last, work>>
    /\ req[r].st = "holding"
    /\ req[r].conn \in DOMAIN connections
    /\ LET database == req[r].conn
           prepared == [query |-> query, conn |-> database]
       IN IF ~config.enableStatementPooling
          THEN /\ statement' = [key |-> key, query |-> query, db |-> database,
                                returned |-> prepared]
               /\ UNCHANGED preparedStatements
          ELSE /\ preparedStatements' =
                     IF key \notin DOMAIN preparedStatements
                     THEN [k \in DOMAIN preparedStatements \cup {key} |->
                              IF k = key THEN prepared ELSE preparedStatements[k]]
                     ELSE preparedStatements
               /\ statement' = [key |-> key, query |-> query, db |-> database,
                                returned |-> preparedStatements'[key]]
    /\ UNCHANGED <<now, config, connections, availableConnections, waitingQueue,
                   queryCache, stats, cleanupInterval, healthCheckInterval, req,
                   timers, nextConn>>

CacheKeysOf(cache) == {cache[i].key : i \in 1..Len(cache)}

\* Map.set: an existing key keeps its place, a new key goes last
MapSet(cache, e) ==
    IF e.key \in CacheKeysOf(cache)
    THEN [i \in 1..Len(cache) |-> IF cache[i].key = e.key THEN e ELSE cache[i]]
    ELSE Append(cache, e)

\* setCachedQuery: at capacity the first key of the Map is deleted, if there
\* is one and `if (firstKey)` holds of it, which it does not of the key ""
Evict(cache) ==
    IF Len(cache) >= config.maxCacheSize
    THEN IF cache # <<>> THEN (IF Head(cache).key # "" THEN Tail(cache) ELSE cache)
         ELSE cache
    ELSE cache

SetCachedQuery(key, ttl) ==
    /\ UNCHANGED <<tableVars, txVars, registryVars, managerVars, dbmVars>>
    /\ config.enableQueryCache
    /\ queryCache' = MapSet(Evict(queryCache),
                            [key |-> key, timestamp |-> now, ttl |-> ttl])
    /\ UNCHANGED <<now, config, connections, availableConnections, waitingQueue,
                   preparedStatements, stats, cleanupInterval, healthCheckInterval,
                   req, timers, nextConn>>

\* getCachedQuery: an entry found past its ttl is deleted
GetCachedQuery(key) ==
    /\ UNCHANGED <<tableVars, txVars, registryVars, managerVars, dbmVars>>
    /\ config.enableQueryCache
    /\ queryCache' = SelectSeq(queryCache,
                          LAMBDA e : ~(e.key = key /\ ~(now - e.timestamp <= e.ttl)))
    /\ UNCHANGED <<now, config, connections, availableConnections, waitingQueue,
                   preparedStatements, stats, cleanupInterval, healthCheckInterval,
                   req, timers, nextConn>>

ClearCache ==
    /\ UNCHANGED <<tableVars, txVars, registryVars, managerVars, dbmVars>>
    /\ queryCache # <<>>
    /\ queryCache' = <<>>
    /\ UNCHANGED <<now, config, connections, availableConnections, waitingQueue,
                   preparedStatements, stats, cleanupInterval, healthCheckInterval,
                   req, timers, nextConn>>

\* --------------------------------------------------------- specifications
CacheOn == [enableQueryCache |-> TRUE, enableStatementPooling |-> TRUE,
            maxCacheSize |-> MaxCacheSize]

\* The pool: acquire / release / close and the timers
Init == PoolInit(1..MaxConns, {CacheOn}) /\ NoRegistry

Next ==
    \/ \E r \in Requests : AcquireAvailable(r)
    \/ \E r \in Requests : AcquireCreate(r)
    \/ \E r \in Requests : AcquireResume(r)
    \/ \E r \in Requests : AcquireWait(r)
    \/ \E r \in Requests : AcquireTimeout(r)
    \/ \E r \in Requests : Release(r)
    \/ Reap
    \/ HealthCheck
    \/ Tick
    \/ ClosePool

Spec == Init /\ [][Next]_vars

\* A pool of one connection with its statement cache and result cache in use
CacheInit ==
    /\ PoolInit({1},
             {[enableQueryCache |-> TRUE, enableStatementPooling |-> TRUE,
               maxCacheSize |-> m] : m \in 1..MaxCacheSize}
             \cup {[enableQueryCache |-> FALSE, enableStatementPooling |-> FALSE,
                    maxCacheSize |-> MaxCacheSize]})
    /\ NoRegistry

CacheNext ==
    \/ \E r \in CacheClients : AcquireAvailable(r)
    \/ \E r \in CacheClients : AcquireCreate(r)
    \/ \E r \in CacheClients : AcquireResume(r)
    \/ \E r \in CacheClients : AcquireWait(r)
    \/ \E r \in CacheClients : AcquireTimeout(r)
    \/ \E r \in CacheClients : Release(r)
    \/ \E r \in CacheClients, key \in StmtKeys, query \in Queries :
          GetPreparedStatement(r, key, query)
    \/ \E key \in CacheKeys, ttl \in 0..MaxTtl : SetCachedQuery(key, ttl)
    \/ \E key \in CacheKeys : GetCachedQuery(key)
    \/ ClearCache
    \/ Reap
    \/ HealthCheck
    \/ Tick
    \/ ClosePool

CacheSpec == CacheInit /\ [][CacheNext]_vars

\* ------------------------------------------------------------------ claims
Holding(r) == req[r].st = "holding"
Served(r) == req[r].st \in {"holding", "released"}

\* C1: no two acquire() calls that are both resolved and not yet released
\* carry the same connection.
C1_ExclusiveHold ==
    \A r1, r2 \in Requests :
        (r1 # r2 /\ Holding(r1) /\ Holding(r2)) => req[r1].conn # req[r2].conn

\* C3: waiters are served FIFO.  Requests are issued in the order of their
\* ids and acquire() queues its waiter before it returns, so a smaller id was
\* queued earlier: whenever a waiter is handed a connection, no waiter queued
\* before it is still waiting.
C3_FifoWaiters ==
    [][\A w \in Requests :
          (req[w].st = "waiting" /\ Holding(w)') =>
              \A w1 \in Requests : w1 < w => req[w1].st # "waiting"]_vars

\* two waiters, neither timed out, were served one after the other
C3_Witness ==
    /\ {2, 3} \subseteq timers
    /\ req[2].st = "released"
    /\ req[3].st = "holding"

\* C4: totalCreated - totalDestroyed = |connections| at all times.
C4_Conservation ==
    stats.totalCreated - stats.totalDestroyed = Cardinality(DOMAIN connections)

\* C5: the number of open pooled connections never exceeds maxConnections.
C5_MaxConnections == Cardinality(DOMAIN connections) <= config.maxConnections

\* the pool is full and a caller had to queue
C5_Witness ==
    /\ Cardinality(DOMAIN connections) = config.maxConnections
    /\ config.maxConnections = MaxConns
    /\ waitingQueue # <<>>

\* C6: a timer that finds its waiter queued rejects exactly that waiter and
\* removes its entry, the other waiters keeping their order; a timed-out
\* waiter is never handed a connection afterwards and a served waiter is never
\* rejected by its timer.
C6_Timeout ==
    [][\A r \in Requests :
          /\ (req[r].st = "timedout" => req'[r].st = "timedout")
          /\ (Served(r) => req'[r].st # "timedout")
          /\ (r \in timers /\ r \notin timers' /\ r \in Range(waitingQueue))
                => req'[r].st = "timedout"
          /\ (req[r].st # "timedout" /\ req'[r].st = "timedout") =>
                /\ r \in Range(waitingQueue)
                /\ waitingQueue' = SelectSeq(waitingQueue, LAMBDA w : w # r)
                /\ \A o \in Requests \ {r} : req'[o] = req[o]]_vars

\* the first of two waiters is still queued after the second one timed out
C6_Witness ==
    \E r1, r2 \in Requests :
        /\ r1 < r2
        /\ req[r2].st = "timedout"
        /\ waitingQueue = <<r1>>

\* C7: close() stops both timers, rejects every queued waiter and leaves no
\* connection, available id, waiter, prepared statement or cached result.
C7_Close ==
    [][Close =>
          /\ ~cleanupInterval' /\ ~healthCheckInterval'
          /\ \A r \in Range(waitingQueue) : req'[r].st = "closed"
          /\ connections' = <<>>
          /\ availableConnections' = <<>>
          /\ waitingQueue' = <<>>
          /\ preparedStatements' = <<>>
          /\ queryCache' = <<>>]_vars

\* a pool that was closed while a caller was queued
C7_Witness ==
    /\ \E r \in Requests : req[r].st = "closed"
    /\ connections = <<>>
    /\ waitingQueue = <<>>
    /\ preparedStatements = <<>>
    /\ queryCache = <<>>
    /\ ~cleanupInterval

TypeOK ==
    /\ now \in 0..MaxTime
    /\ DOMAIN connections \subseteq 1..MaxCreated
    /\ Range(waitingQueue) \subseteq Requests


\* ======================================================================
\* The Table facade: values of the caller, the WHERE compiler, the engine
\* ======================================================================

\* values of the calling program, tagged with their typeof
Num(n) == [t |-> "number", v |-> n]

Obj(f) == [t |-> "object", v |-> f]

Arr(s) == [t |-> "array", v |-> s]

EmptyObj == Obj(<<>>)

Null == [t |-> "null", v |-> 0]

Bool(b) == [t |-> "boolean", v |-> b]

\* a Date, by its getTime()
DateOf(ms) == [t |-> "date", v |-> ms]

\* The characters of a string, as far as the program looks at them: either
\* the text JSON.stringify gives for a value x, or a named text that is not
\* valid JSON ("" among them).
JsonOf(x) == [k |-> "json", s |-> "", j |-> <<x>>]

Raw(name) == [k |-> "raw", s |-> name, j |-> <<>>]

Str(chars) == [t |-> "string", v |-> chars]

\* what the engine stores and compares
SInt(n) == [t |-> "integer", v |-> n]

SReal(n) == [t |-> "real", v |-> n]

SText(chars) == [t |-> "text", v |-> chars]

SNull == [t |-> "NULL", v |-> 0]

\* `if (x)` / `!x` / `a && b`
Truthy(x) ==
    CASE x.t = "undefined" -> FALSE
      [] x.t = "null" -> FALSE
      [] x.t = "number" -> x.v # 0
      [] x.t = "boolean" -> x.v
      [] x.t = "string" -> x.v # Raw("")
      [] OTHER -> TRUE

Vals == 1..MaxVal

Columns == {"id", "a"}

\* the reserved keys of a where-clause, in the order the code visits them
GroupKeys == <<"LIKE", "greaterThan", "lessThan", "notEqual",
               "greaterThanOrEqual", "lessThanOrEqual">>

ReservedKeys == Range(GroupKeys) \cup {"OR"}

\* the SQL operator each group key compiles to
OpOf(k) ==
    CASE k = "LIKE" -> "LIKE"
      [] k = "greaterThan" -> ">"
      [] k = "lessThan" -> "<"
      [] k = "notEqual" -> "!="
      [] k = "greaterThanOrEqual" -> ">="
      [] k = "lessThanOrEqual" -> "<="

\* Object.keys(o): the own keys in the order the object literal was written;
\* the literals considered here are written in this order
KeyOrder == <<"id", "a", "LIKE", "OR", "greaterThan", "lessThan", "notEqual",
              "greaterThanOrEqual", "lessThanOrEqual">>

Keys(o) == SelectSeq(KeyOrder, LAMBDA k : k \in DOMAIN o.v)

\* `'k' in o && o.k`
Has(o, k) == k \in DOMAIN o.v /\ Truthy(o.v[k])

\* [f(s[1]), ..., f(s[n])]
Map(s, f(_)) == [i \in 1..Len(s) |-> f(s[i])]

RECURSIVE Flatten(_)
Flatten(ss) == IF ss = <<>> THEN <<>> ELSE Head(ss) \o Flatten(Tail(ss))


\* ------------------------------------------------------- where validation
HasValidWhereConditionsAnyKey(where) == Keys(where) # <<>>

\* hasValidWhereConditions: an own key that is not reserved, or a reserved
\* group that is truthy and non-empty
HasValidWhereConditions(where) ==
    IF Keys(where) = <<>> THEN FALSE
    ELSE IF \E k \in DOMAIN where.v : k \notin ReservedKeys THEN TRUE
    ELSE \/ \E k \in Range(GroupKeys) : Has(where, k) /\ Keys(where.v[k]) # <<>>
         \/ /\ Has(where, "OR")
            /\ where.v["OR"].t = "array"
            /\ Len(where.v["OR"].v) > 0

\* validateUpdateOptions: the message of the error it throws, "" when it returns
ValidateUpdateOptions(where, values) ==
    IF ~Truthy(values) THEN "Update values cannot be empty"
    ELSE IF Keys(values) = <<>> THEN "Update values cannot be empty"
    ELSE IF ~Truthy(where) THEN "Update operation requires a WHERE clause for safety"
    ELSE IF ~HasValidWhereConditions(where)
         THEN "Update operation requires a non-empty WHERE clause for safety"
    ELSE ""

\* validateDeleteOptions: the message of the error it throws, "" when it returns
ValidateDeleteOptions(where) ==
    IF ~Truthy(where) THEN "Delete operation requires a WHERE clause for safety"
    ELSE IF ~HasValidWhereConditions(where)
         THEN "Delete operation requires a non-empty WHERE clause for safety"
    ELSE ""

\* ---------------------------------------------------------- where compiler
\* A compiled clause is the sequence of the conditions joined by AND.  A
\* condition is a sequence of alternatives joined by OR, written inside
\* parentheses when paren is set; an alternative is a sequence of
\* `col op ?` terms joined by AND.
Term(col, op) == [col |-> col, op |-> op]

Plain(term) == [paren |-> FALSE, alts |-> << <<term>> >>]

\* one element of where.OR
OrAlternative(condition) ==
    IF condition.t = "object" /\ Has(condition, "LIKE")
    THEN Map(Keys(condition.v["LIKE"]), LAMBDA key : Term(key, "LIKE"))
    ELSE Map(Keys(condition), LAMBDA key : Term(key, "="))

IsOrList(where) == Has(where, "OR") /\ where.v["OR"].t = "array"

RegularFields(where) == SelectSeq(Keys(where), LAMBDA key : key \notin ReservedKeys)

\* buildWhereClause: <<>> is the empty string, anything else follows WHERE
BuildWhereClause(where) ==
    IF ~Truthy(where) THEN <<>>
    ELSE IF Keys(where) = <<>> THEN <<>>
    ELSE Flatten(Map(GroupKeys, LAMBDA k :
                IF Has(where, k)
                THEN Map(Keys(where.v[k]), LAMBDA key : Plain(Term(key, OpOf(k))))
                ELSE <<>>))
         \o (IF IsOrList(where)
             THEN << [paren |-> TRUE, alts |-> Map(where.v["OR"].v, OrAlternative)] >>
             ELSE <<>>)
         \o Map(RegularFields(where), LAMBDA key : Plain(Term(key, "=")))

\* parseParameters on one value, in the order of its tests; what it returns
\* is bound as an integer or as text
ParseParameter(param) ==
    CASE param.t = "number" -> SInt(param.v)
      [] param.t = "string" -> SText(param.v)
      [] param.t = "boolean" -> SInt(IF param.v THEN 1 ELSE 0)
      [] param.t = "date" -> SInt(param.v)
      [] param.t \in {"object", "array"} -> SText(JsonOf(param))
      [] param.t \in {"null", "undefined"} -> SText(Raw(""))

\* Object.values(o)
Values(o) == Map(Keys(o), LAMBDA k : o.v[k])

ParseParameters(params) == Map(params, ParseParameter)

\* extractWhereParameters
ExtractWhereParameters(where) ==
    IF ~Truthy(where) THEN <<>>
    ELSE Flatten(Map(GroupKeys, LAMBDA k :
                IF Has(where, k) THEN ParseParameters(Values(where.v[k])) ELSE <<>>))
         \o (IF IsOrList(where)
             THEN Flatten(Map(where.v["OR"].v, LAMBDA condition :
                     IF condition.t = "object" /\ Has(condition, "LIKE")
                     THEN ParseParameters(Values(condition.v["LIKE"]))
                     ELSE ParseParameters(Values(condition))))
             ELSE <<>>)
         \o ParseParameters(Map(RegularFields(where), LAMBDA key : where.v[key]))


\* ------------------------------------------------------------- the engine
\* a row maps each column to what is stored in it
\* the schema type of a column
TypeOf(column) == IF column = "id" THEN "number" ELSE schema

\* What a column declared by getSQLiteDataType keeps of a bound value:
\* INTEGER (number, Date, boolean) and REAL (float) columns turn text that
\* reads as a number into that number, REAL columns hold integers as reals,
\* TEXT columns (string, json) hold numbers as their decimal text.
Affinity(type, x) ==
    LET numeric == IF x.t = "text"
                   THEN IF x.v.k = "json" THEN x.v.j[1].t = "number" ELSE FALSE
                   ELSE FALSE
    IN CASE type \in {"number", "Date", "boolean"} ->
                IF numeric THEN SInt(x.v.j[1].v) ELSE x
         [] type = "float" ->
                IF numeric THEN SReal(x.v.j[1].v)
                ELSE IF x.t = "integer" THEN SReal(x.v) ELSE x
         [] OTHER ->
                IF x.t \in {"integer", "real"} THEN SText(JsonOf(Num(x.v))) ELSE x

Row(id, a) == [c \in Columns |-> IF c = "id" THEN SInt(id) ELSE a]

Terms(clause) == Flatten(Flatten(Map(clause, LAMBDA cond : cond.alts)))

\* prepare() rejects `()`, an empty alternative and an unknown column
PrepareFails(clause) ==
    \/ \E i \in 1..Len(clause) :
          \/ clause[i].alts = <<>>
          \/ \E j \in 1..Len(clause[i].alts) : clause[i].alts[j] = <<>>
    \/ \E term \in Range(Terms(clause)) : term.col \notin Columns

\* integers sort before text; the only text met here is ''
Less(x, y) == IF x.t = y.t THEN x.t = "integer" /\ x.v < y.v ELSE x.t = "integer"

\* `x op p` in the engine; the patterns met here carry no wildcard
Compare(op, x, p) ==
    CASE op = "=" -> x = p
      [] op = "LIKE" -> x = p
      [] op = "!=" -> x # p
      [] op = "<" -> Less(x, p)
      [] op = ">" -> Less(p, x)
      [] op = "<=" -> ~Less(p, x)
      [] op = ">=" -> ~Less(x, p)

\* the k-th `?` of the statement takes the k-th parameter
RECURSIVE BindAlts(_, _)
BindAlts(alts, ps) ==
    IF alts = <<>> THEN <<>>
    ELSE LET n == Len(Head(alts))
         IN << [i \in 1..n |-> [col |-> Head(alts)[i].col,
                                  op |-> Head(alts)[i].op,
                                  val |-> ps[i]]] >>
            \o BindAlts(Tail(alts), SubSeq(ps, n + 1, Len(ps)))

RECURSIVE Bind(_, _)
Bind(clause, ps) ==
    IF clause = <<>> THEN <<>>
    ELSE LET n == Len(Flatten(Head(clause).alts))
         IN << BindAlts(Head(clause).alts, ps) >>
            \o Bind(Tail(clause), SubSeq(ps, n + 1, Len(ps)))

\* the row satisfies the bound clause; the empty clause selects every row
Matches(row, bound) ==
    \A i \in 1..Len(bound) :
        \E j \in 1..Len(bound[i]) :
            \A k \in 1..Len(bound[i][j]) :
                Compare(bound[i][j][k].op, row[bound[i][j][k].col], bound[i][j][k].val)

\* `Object.keys(options.values).map(key => `${key} = ?`)` of update
SetClause(values) == Map(Keys(values), LAMBDA key : Term(key, "="))

\* `[...setParams, ...whereParams]` with the WHERE values first
AllParamsWhereFirst(where, values) ==
    ExtractWhereParameters(where) \o ParseParameters(Values(values))

\* `[...setParams, ...whereParams]` of update
AllParams(where, values) ==
    ParseParameters(Values(values)) \o ExtractWhereParameters(where)

\* UPDATE t SET k = ?, ... <clause>: the first `?`s are those of SET
RunUpdate(rs, set, clause, ps) ==
    LET n == Len(set)
        bound == Bind(clause, SubSeq(ps, n + 1, Len(ps)))
    IN Map(rs, LAMBDA row :
           IF Matches(row, bound)
           THEN [c \in Columns |->
                    IF \E i \in 1..n : set[i].col = c
                    THEN LET i == CHOOSE i \in 1..n :
                                     set[i].col = c
                                     /\ \A j \in 1..n : set[j].col = c => j <= i
                         IN Affinity(TypeOf(c), ps[i])
                    ELSE row[c]]
           ELSE row)

\* DELETE FROM t <clause>
RunDelete(rs, clause, ps) ==
    LET bound == Bind(clause, ps)
    IN SelectSeq(rs, LAMBDA row : ~Matches(row, bound))

RECURSIVE MaxRowid(_)
MaxRowid(rs) ==
    IF rs = <<>> THEN 0
    ELSE LET m == MaxRowid(Tail(rs))
         IN IF Head(rs)["id"].v > m THEN Head(rs)["id"].v ELSE m

\* formatRecordValuesForInsert for the one inserted column, then
\* INSERT INTO t (a) VALUES (?): the row and its lastInsertRowid
InsertRecord(rs, record) ==
    LET value == IF "a" \in DOMAIN record.v THEN record.v["a"] ELSE Undefined
    IN Row(MaxRowid(rs) + 1, Affinity(TypeOf("a"), ParseParameter(value)))

\* chunk(array, size)
RECURSIVE Chunk(_, _)
Chunk(array, size) ==
    IF array = <<>> THEN <<>>
    ELSE IF Len(array) <= size THEN <<array>>
    ELSE <<SubSeq(array, 1, size)>> \o Chunk(SubSeq(array, size + 1, Len(array)), size)


\* ------------------------------------------------------ reading rows back
\* the rows the statement selects, in the order the engine yields them: a
\* table scan is in rowid order
Filter(rs, clause, ps) ==
    LET bound == Bind(clause, ps)
    IN SelectSeq(rs, LAMBDA row : Matches(row, bound))

\* rows of s with key below (above) the key of row x, and those with the
\* same key that come before x in s
Before(s, i, column, direction) ==
    Cardinality({j \in 1..Len(s) :
        \/ IF direction = "DESC" THEN Less(s[i][column], s[j][column])
                                 ELSE Less(s[j][column], s[i][column])
        \/ /\ ~Less(s[i][column], s[j][column])
           /\ ~Less(s[j][column], s[i][column])
           /\ j < i})

\* ORDER BY column direction: rows with equal keys keep the scan order
OrderBy(s, column, direction) ==
    [n \in 1..Len(s) |->
        s[CHOOSE i \in 1..Len(s) : Before(s, i, column, direction) = n - 1]]

LimitFromPage(s, limit, offset) ==
    SubSeq(s, offset + limit, IF offset + 2 * limit <= Len(s) THEN offset + 2 * limit - 1
                              ELSE Len(s))

\* LIMIT limit OFFSET offset
Limit(s, limit, offset) ==
    SubSeq(s, offset + 1, IF offset + limit < Len(s) THEN offset + limit ELSE Len(s))

\* a stored value as the driver hands it to the program
FromEngine(x) ==
    CASE x.t = "integer" -> Num(x.v)
      [] x.t = "real" -> Num(x.v)
      [] x.t = "text" -> Str(x.v)
      [] x.t = "NULL" -> Null

\* restoreDataTypes on one column of a row
RestoreValue(type, value) ==
    CASE type = "Date" -> IF value.t = "number" THEN DateOf(value.v) ELSE value
      [] type = "json" ->
            IF value.t = "string" /\ value.v.k = "json" THEN value.v.j[1] ELSE value
      [] type = "boolean" -> Bool(value.t = "number" /\ value.v = 1)
      [] OTHER -> value

\* restoreDataTypes(row)
RestoreDataTypes(row) ==
    [c \in DOMAIN row |-> RestoreValue(TypeOf(c), FromEngine(row[c]))]

\* ------------------------------------------------- executeWithErrorWrapper
maxRetries == 3

ExhaustedLate(retries) == retries > maxRetries

\* `if (retries >= maxRetries)` after `retries++`
Exhausted(retries) == retries >= maxRetries

\* One turn of the while loop, given how the callback ended: "ok" it
\* returned, "locked" it threw an SQLiteError whose message includes
\* 'database is locked', "error" it threw anything else.
ExecuteWithErrorWrapper(c, outcome) ==
    LET c1 == [c EXCEPT !.outcomes = Append(@, outcome)]
        n == c.retries + 1
    IN CASE outcome = "ok" -> [c1 EXCEPT !.phase = "returned"]
         [] outcome = "error" -> [c1 EXCEPT !.phase = "threw", !.error = "engine"]
         [] outcome = "locked" ->
              IF Exhausted(n)
              THEN [c1 EXCEPT !.retries = n, !.phase = "threw",
                              !.error = "Database is locked after multiple retry attempts"]
              ELSE IF n < maxRetries
              THEN [c1 EXCEPT !.retries = n]
              ELSE [c1 EXCEPT !.retries = n, !.phase = "threw",
                              !.error = "Unexpected error in executeWithErrorWrapper"]

\* ---------------------------------------------------------------- calls
\* the call is entered; it throws msg at once unless msg is ""
Enter(c, msg) ==
    IF msg = ""
    THEN [c EXCEPT !.phase = "running", !.before = rows, !.wrote = call.wrote]
    ELSE [c EXCEPT !.phase = "threw", !.error = msg, !.before = rows,
                   !.wrote = call.wrote]

\* update(options) up to the first turn of the retry loop
Update(where, values) ==
    /\ call.phase = "idle"
    /\ call' = Enter([NoCall EXCEPT !.op = "update", !.where = where, !.values = values],
                     ValidateUpdateOptions(where, values))
    /\ UNCHANGED <<rows, schema, poolVars, txVars, registryVars, managerVars, dbmVars>>

EmptyOrListNever(where) == FALSE

\* `'OR' in where && Array.isArray(where.OR) && where.OR.length === 0`
EmptyOrList(where) ==
    /\ "OR" \in DOMAIN where.v
    /\ where.v["OR"].t = "array"
    /\ where.v["OR"].v = <<>>

\* delete(options) up to the first turn of the retry loop
Delete(where) ==
    /\ call.phase = "idle"
    /\ LET c == Enter([NoCall EXCEPT !.op = "delete", !.where = where],
                      ValidateDeleteOptions(where))
       IN call' = IF c.phase = "running" /\ EmptyOrList(where)
                  THEN [c EXCEPT !.phase = "returned"]
                  ELSE c
    /\ UNCHANGED <<rows, schema, poolVars, txVars, registryVars, managerVars, dbmVars>>

\* select(options) with options = {where} up to the first turn of the loop
Select(where) ==
    /\ call.phase = "idle"
    /\ LET c == Enter([NoCall EXCEPT !.op = "select", !.where = where], "")
       IN call' = IF Truthy(where) /\ EmptyOrList(where)
                  THEN [c EXCEPT !.phase = "returned"]
                  ELSE c
    /\ UNCHANGED <<rows, schema, poolVars, txVars, registryVars, managerVars, dbmVars>>

\* count(options) with options = {where} up to the first turn of the loop
Count(where) ==
    /\ call.phase = "idle"
    /\ LET c == Enter([NoCall EXCEPT !.op = "count", !.where = where], "")
       IN call' = IF Truthy(where) /\ EmptyOrList(where)
                  THEN [c EXCEPT !.phase = "returned"]
                  ELSE c
    /\ UNCHANGED <<rows, schema, poolVars, txVars, registryVars, managerVars, dbmVars>>

\* paginate(options) up to the first turn of the loop of its count query
Paginate(page, pageSize, where, orderBy) ==
    /\ call.phase = "idle"
    /\ call' = Enter([NoCall EXCEPT !.op = "paginate", !.where = where,
                                    !.page = page, !.pageSize = pageSize,
                                    !.orderBy = orderBy], "")
    /\ UNCHANGED <<rows, schema, poolVars, txVars, registryVars, managerVars, dbmVars>>

\* Math.ceil(total / pageSize)
Ceil(total, pageSize) == (total + pageSize - 1) \div pageSize

\* what the callback of a reading call leaves in the call when it succeeds
ReadResult(c, clause, ps) ==
    LET found == Filter(rows, clause, ps)
    IN CASE c.op = "select" -> [c EXCEPT !.data = Map(found, RestoreDataTypes)]
         [] c.op = "count" -> [c EXCEPT !.total = Len(found)]
         [] c.op = "paginate" /\ c.stage = 1 -> [c EXCEPT !.total = Len(found)]
         [] c.op = "paginate" /\ c.stage = 2 ->
               LET sorted == IF c.orderBy = NoOrder THEN found
                             ELSE OrderBy(found, c.orderBy.column, c.orderBy.direction)
               IN [c EXCEPT
                     !.data = Map(Limit(sorted, c.pageSize, (c.page - 1) * c.pageSize),
                                  RestoreDataTypes),
                     !.totalPages = Ceil(c.total, c.pageSize)]
         [] OTHER -> c

\* paginate goes from its count query to its data query, which has a retry
\* loop of its own
NextStage(c) ==
    IF c.op = "paginate" /\ c.stage = 1 /\ c.phase = "returned"
    THEN [c EXCEPT !.phase = "running", !.stage = 2, !.retries = 0, !.outcomes = <<>>]
    ELSE c

\* the statement a call hands to prepare(): the SET clause of an update and
\* the WHERE clause
QueryString(c) ==
    [set |-> IF c.op = "update" THEN SetClause(c.values) ELSE <<>>,
     where |-> BuildWhereClause(c.where)]

\* one invocation of the callback of update / delete / select / count /
\* paginate, and the loop's reaction to it
AttemptStatement ==
    /\ call.phase = "running"
    /\ call.op \in {"update", "delete", "select", "count", "paginate"}
    /\ LET queryString == QueryString(call)
           clause == queryString.where
           set == queryString.set
           ps == ExtractWhereParameters(call.where)
           all == IF call.op = "update" THEN AllParams(call.where, call.values)
                  ELSE ps
           c == [call EXCEPT !.engineCalls = @ + 1, !.params = all]
       IN IF PrepareFails(clause)
          THEN /\ call' = ExecuteWithErrorWrapper(c, "error")
               /\ rows' = rows
          ELSE \E outcome \in {"ok", "locked", "error"} :
                  /\ call' = NextStage(ExecuteWithErrorWrapper(
                                 IF outcome = "ok" THEN ReadResult(c, clause, ps) ELSE c,
                                 outcome))
                  /\ rows' = IF outcome # "ok" THEN rows
                             ELSE IF call.op = "update"
                             THEN RunUpdate(rows, set, clause, all)
                             ELSE IF call.op = "delete"
                             THEN RunDelete(rows, clause, ps)
                             ELSE rows
    /\ UNCHANGED <<schema, poolVars, txVars, registryVars, managerVars, dbmVars>>

\* -------------------------------------------------------------- bulkInsert
\* the body of bulkTransaction: every record of the batch is inserted and
\* its lastInsertRowid pushed on insertedIds
RECURSIVE InsertBatch(_, _)
InsertBatch(st, batch) ==
    IF batch = <<>> THEN st
    ELSE LET row == InsertRecord(st.rows, Head(batch))
         IN InsertBatch([rows |-> Append(st.rows, row),
                         ids |-> Append(st.ids, row["id"].v)],
                        Tail(batch))

\* `for (const batch of batches) bulkTransaction(batch)` from batch k on.
\* Batch number fail throws: at its first write (nothing of it ran), or at
\* its COMMIT (its pushes on insertedIds stay, its rows are rolled back).
\* fail = 0: no batch throws.
RECURSIVE RunBatches(_, _, _, _, _)
RunBatches(st, batches, k, fail, at) ==
    IF k > Len(batches) THEN st
    ELSE IF k = fail
    THEN IF at = "commit"
         THEN [rows |-> st.rows, ids |-> InsertBatch(st, batches[k]).ids]
         ELSE st
    ELSE RunBatches(InsertBatch(st, batches[k]), batches, k + 1, fail, at)

\* bulkInsert(records, batchSize) up to the first turn of the retry loop
BulkInsert(records, batchSize) ==
    /\ call.phase = "idle"
    /\ call' = Enter([NoCall EXCEPT !.op = "bulkInsert", !.records = records,
                                    !.batchSize = batchSize],
                     IF records = <<>> THEN "No records provided for bulk insertion"
                     ELSE "")
    /\ UNCHANGED <<rows, schema, poolVars, txVars, registryVars, managerVars, dbmVars>>

\* one invocation of the callback of bulkInsert, and the loop's reaction
AttemptBulkInsert ==
    /\ call.phase = "running"
    /\ call.op = "bulkInsert"
    /\ LET batches == Chunk(call.records, call.batchSize)
       IN \E fail \in 0..Len(batches), at \in {"write", "commit"},
             kind \in {"locked", "error"} :
             LET st == RunBatches([rows |-> rows, ids |-> call.insertedIds],
                                  batches, 1, fail, at)
             IN /\ rows' = st.rows
                /\ call' = ExecuteWithErrorWrapper(
                               [call EXCEPT !.insertedIds = st.ids,
                                            !.engineCalls = @ + 1],
                               IF fail = 0 THEN "ok" ELSE kind)
    /\ UNCHANGED <<schema, poolVars, txVars, registryVars, managerVars, dbmVars>>

\* ------------------------------------------------------ the table's inputs
\* the table before the call: up to MaxRows rows with rowids 1, 2, ...
TableOf(n) == [i \in 1..n |-> Row(i, SInt(((i - 1) % MaxVal) + 1))]

\* what a LIKE / comparison group can be
GroupValues == {Undefined, EmptyObj, Obj("a" :> Num(1))}

\* what OR can be
OrValues ==
    {Undefined, Arr(<<>>), Arr(<<EmptyObj>>), Arr(<<Obj("a" :> Num(1))>>),
     Arr(<<Obj("id" :> Num(1)), Obj("a" :> Num(MaxVal))>>),
     Arr(<<Obj("LIKE" :> Obj("a" :> Num(1)))>>)}

ColumnValues == {Undefined} \cup {Num(v) : v \in Vals}

ValuesOf(k) ==
    IF k \in Columns THEN ColumnValues
    ELSE IF k = "OR" THEN OrValues
    ELSE GroupValues

\* where: absent, or an object of at most MaxKeys own keys
Wheres ==
    {Undefined} \cup
    {Obj(f) : f \in UNION {{g \in [K -> GroupValues \cup OrValues \cup ColumnValues] :
                                \A k \in K : g[k] \in ValuesOf(k)} :
                           K \in {S \in SUBSET Range(KeyOrder) : Cardinality(S) <= MaxKeys}}}

UpdateValues == {Undefined, EmptyObj, Obj("a" :> Num(MaxVal))}

Records == UNION {[1..n -> {Obj("a" :> Num(v)) : v \in Vals}] : n \in 0..MaxRecords}

\* no pool is involved in a Table call
NoPool ==
    /\ now = 0
    /\ config = [maxConnections |-> 1, minConnections |-> 0,
                 idleTimeout |-> IdleTimeout,
                 maxConnectionAge |-> MaxConnectionAge,
                 enableHealthChecks |-> TRUE,
                 enableQueryCache |-> CacheOn.enableQueryCache,
                 enableStatementPooling |-> CacheOn.enableStatementPooling,
                 maxCacheSize |-> CacheOn.maxCacheSize]
    /\ connections = EmptyPool.connections
    /\ availableConnections = <<>>
    /\ waitingQueue = <<>>
    /\ stats = InitStats
    /\ nextConn = 1
    /\ cleanupInterval = FALSE
    /\ healthCheckInterval = FALSE
    /\ preparedStatements = <<>>
    /\ queryCache = <<>>
    /\ req = [r \in Requests |-> [st |-> "idle", conn |-> NoConn]]
    /\ timers = {}

TableInit ==
    /\ NoPool
    /\ TxIdle
    /\ NoManager
    /\ NoDbm
    /\ NoRegistry
    /\ \E n \in 0..MaxRows : rows = TableOf(n)
    /\ call = NoCall
    /\ schema = "number"

\* one call is made, from a caller that is not inside another call
CanCall == call.phase = "idle"

\* the where-clauses and orderings passed to paginate
PageWheres ==
    {Undefined, Obj("OR" :> Arr(<<>>)), Obj("a" :> Num(1)),
     Obj("greaterThan" :> Obj("a" :> Num(1)))}

PageOrders ==
    {NoOrder, [column |-> "a", direction |-> ""], [column |-> "a", direction |-> "DESC"],
     [column |-> "id", direction |-> "DESC"]}

TableNext ==
    \/ CanCall /\ \E where \in Wheres, values \in UpdateValues : Update(where, values)
    \/ CanCall /\ \E where \in Wheres : Delete(where)
    \/ CanCall /\ \E where \in Wheres : Select(where)
    \/ CanCall /\ \E where \in Wheres : Count(where)
    \/ CanCall /\ \E page \in 1..MaxPage, pageSize \in 1..MaxPageSize,
                      where \in PageWheres, orderBy \in PageOrders :
                      Paginate(page, pageSize, where, orderBy)
    \/ CanCall /\ \E records \in Records, batchSize \in 1..MaxRecords :
                      BulkInsert(records, batchSize)
    \/ AttemptStatement
    \/ AttemptBulkInsert

TableSpec == TableInit /\ [][TableNext]_vars

\* ------------------------------------------------------------------ C2
\* a group that names no column: absent, {}, [] or a list of {}
EmptyGroup(g) ==
    CASE g.t = "undefined" -> TRUE
      [] g.t = "object" -> DOMAIN g.v = {}
      [] g.t = "array" -> \A i \in 1..Len(g.v) : g.v[i].t = "object" /\ DOMAIN g.v[i].v = {}
      [] OTHER -> FALSE

\* the predicate carries no meaningful condition
NoCondition(where) ==
    IF where.t = "undefined" THEN TRUE
    ELSE \A k \in DOMAIN where.v : k \in ReservedKeys /\ EmptyGroup(where.v[k])

\* C2: update and delete with a predicate that carries no meaningful
\* condition (absent, {}, or only empty LIKE / OR / comparison groups) never
\* return normally and leave every row as it was: the call has thrown, or it
\* is about to make its first use of the engine, which throws.
C2_EmptyPredicateRejected ==
    (call.op \in {"update", "delete"} /\ NoCondition(call.where))
        => /\ rows = call.before
           /\ \/ call.phase = "threw"
              \/ call.phase = "running" /\ call.outcomes = <<>>

\* an update with values to set and a predicate of empty groups has thrown,
\* on a table that has rows
C2_Witness ==
    /\ call.op = "update"
    /\ call.values.t = "object"
    /\ DOMAIN call.values.v # {}
    /\ call.where.t = "object"
    /\ DOMAIN call.where.v # {}
    /\ NoCondition(call.where)
    /\ call.phase = "threw"
    /\ rows # <<>>

\* ------------------------------------------------------------------ C8
\* C8: when bulkInsert(xs, batchSize) returns, it returns exactly |xs| ids
\* and the i-th id is the rowid of the row that holds xs[i].
C8_BulkInsertIds ==
    (call.op = "bulkInsert" /\ call.phase = "returned")
        => /\ Len(call.insertedIds) = Len(call.records)
           /\ \A i \in 1..Len(call.records) :
                 \E j \in 1..Len(rows) :
                    /\ rows[j]["id"].v = call.insertedIds[i]
                    /\ rows[j]["a"] = ParseParameter(call.records[i].v["a"])

\* ------------------------------------------------------------------ C9
Last(s) == s[Len(s)]

LockedMessage == "Database is locked after multiple retry attempts"

\* the state of the retry loop after any number of turns
C9_Loop ==
    /\ Len(call.outcomes) <= maxRetries
    /\ call.stage \in {1, 2}
    /\ call.phase = "running"
          => /\ call.retries = Len(call.outcomes)
             /\ call.retries < maxRetries
             /\ \A i \in 1..Len(call.outcomes) : call.outcomes[i] = "locked"
    /\ (call.outcomes # <<>> /\ Last(call.outcomes) = "ok") <=>
          (call.phase = "returned" /\ call.outcomes # <<>>)
    /\ (call.phase = "threw" /\ call.outcomes # <<>> /\ Last(call.outcomes) = "locked")
          => /\ call.error = LockedMessage
             /\ Len(call.outcomes) = maxRetries
    /\ (call.phase = "threw" /\ call.error = LockedMessage)
          => /\ Len(call.outcomes) = maxRetries
             /\ \A i \in 1..maxRetries : call.outcomes[i] = "locked"

Stmt(kind, k, ok) == [stmt |-> kind, op |-> k, ok |-> ok]

\* the statement e throws; the first error thrown is the one rethrown
Raise(st, e) ==
    [st EXCEPT !.log = Append(@, e),
               !.error = IF @ = <<>> THEN <<e>> ELSE @]

\* db.exec(`BEGIN ${isolationLevel}`): refused inside a transaction, or when
\* the lock it takes at once is held elsewhere
Begin(st, fails) ==
    IF st.open \/ fails THEN Raise(st, Stmt("BEGIN", 0, FALSE))
    ELSE [st EXCEPT !.open = TRUE, !.log = Append(@, Stmt("BEGIN", 0, TRUE))]

\* `for (const operation of operations) results.push(operation(db))` from
\* operation k on; operation failOp throws and writes nothing
RECURSIVE RunOperations(_, _, _, _, _)
RunOperations(st, r, k, n, failOp) ==
    IF k > n THEN st
    ELSE IF k = failOp THEN Raise(st, Stmt("op", k, FALSE))
    ELSE RunOperations([st EXCEPT !.writes = Append(@, [r |-> r, op |-> k]),
                                  !.log = Append(@, Stmt("op", k, TRUE))],
                       r, k + 1, n, failOp)

\* db.exec('COMMIT')
Commit(st, fails) ==
    IF fails THEN Raise(st, Stmt("COMMIT", 0, FALSE))
    ELSE [st EXCEPT !.db = @ \o st.writes, !.writes = <<>>, !.open = FALSE,
                    !.log = Append(@, Stmt("COMMIT", 0, TRUE))]

RollbackSkipped(st) == st

\* the catch block: db.exec('ROLLBACK'), whose own error is only logged
Rollback(st) ==
    IF st.open
    THEN [st EXCEPT !.writes = <<>>, !.open = FALSE,
                    !.log = Append(@, Stmt("ROLLBACK", 0, TRUE))]
    ELSE [st EXCEPT !.log = Append(@, Stmt("ROLLBACK", 0, FALSE))]

\* The function executePooledTransaction hands to executeWithPool, run for
\* request r on a connection in state st.  fail says which statement throws:
\* 1..n that operation, n + 1 the COMMIT, n + 2 the BEGIN, 0 none.
PooledTransaction(st, r, n, fail) ==
    LET s1 == Begin(st, fail = n + 2)
        s2 == RunOperations(s1, r, 1, n, fail)
        s3 == Commit(s2, fail = n + 1)
    IN IF s1.error # <<>> THEN Rollback(s1)
       ELSE IF s2.error # <<>> THEN Rollback(s2)
       ELSE IF s3.error # <<>> THEN Rollback(s3)
       ELSE s3

TxLevels == {"DEFERRED", "IMMEDIATE", "EXCLUSIVE"}

\* executeWithPool after `await this.pool.acquire()`: the function runs to
\* its end on the acquired connection, then the connection is released
ExecutePooledTransaction(r, n, level, fail) ==
    /\ req[r].st = "holding"
    /\ fail = n + 2 => level # "DEFERRED"
    /\ LET id == req[r].conn
           st == PooledTransaction([open |-> openTx[id].open,
                                    writes |-> openTx[id].writes,
                                    db |-> db, log |-> <<>>, error |-> <<>>],
                                   r, n, fail)
       IN /\ db' = st.db
          /\ openTx' = [openTx EXCEPT ![id] = [open |-> st.open, writes |-> st.writes]]
          /\ tx' = [ran |-> TRUE, r |-> r, conn |-> id, n |-> n,
                    log |-> st.log, threw |-> st.error # <<>>, error |-> st.error,
                    before |-> db]
    /\ ReleaseConnection(r)
    /\ UNCHANGED <<tableVars, registryVars, managerVars, dbmVars>>

\* a manager built with pooling: initPool constructs the pool and does not
\* initialize it
TxInit == PoolInit(1..MaxConns, {CacheOn}) /\ ~cleanupInterval /\ NoRegistry

\* the callers of executePooledTransaction
TxClients == {1, 2}

TxNext ==
    \/ \E r \in TxClients :
          \/ AcquireAvailable(r)
          \/ AcquireCreate(r)
          \/ AcquireResume(r)
          \/ AcquireWait(r)
          \/ AcquireTimeout(r)
          \/ \E n \in 0..MaxOps, level \in TxLevels :
                \E fail \in 0..(n + 2) : ExecutePooledTransaction(r, n, level, fail)
    \/ Tick

TxSpec == TxInit /\ [][TxNext]_vars

\* ------------------------------------------------------------------ C10
\* the effects of operations 1..n of request r, in array order
Effects(r, n) == [k \in 1..n |-> [r |-> r, op |-> k]]

\* C10: a pooled transaction that has run used one pooled connection and
\* left no transaction open on it.  If no statement failed, it ran BEGIN, the
\* operations in array order and COMMIT, and all their effects are
\* committed.  If a statement failed, the operations before it ran in array
\* order, ROLLBACK was issued last, nothing is committed or left pending,
\* and the error thrown to the caller is the one of the failed statement.
C10_AtomicTransaction ==
    tx.ran =>
        /\ tx.conn # NoConn
        /\ ~openTx[tx.conn].open
        /\ openTx[tx.conn].writes = <<>>
        /\ LET ops == SelectSeq(tx.log, LAMBDA e : e.stmt = "op" /\ e.ok)
           IN /\ \A i \in 1..Len(ops) : ops[i].op = i
              /\ IF ~tx.threw
                 THEN /\ Len(ops) = tx.n
                      /\ tx.log[1] = Stmt("BEGIN", 0, TRUE)
                      /\ Last(tx.log) = Stmt("COMMIT", 0, TRUE)
                      /\ Len(tx.log) = tx.n + 2
                      /\ db = tx.before \o Effects(tx.r, tx.n)
                 ELSE /\ db = tx.before
                      /\ Last(tx.log).stmt = "ROLLBACK"
                      /\ Len(tx.error) = 1
                      /\ ~tx.error[1].ok
                      /\ tx.error[1] = tx.log[Len(tx.log) - 1]
                      /\ \A i \in 1..(Len(tx.log) - 2) : tx.log[i].ok

\* the second operation of a transaction failed after the first had written
C10_Witness ==
    /\ tx.ran
    /\ tx.threw
    /\ tx.n = 2
    /\ tx.error = <<Stmt("op", 2, FALSE)>>
    /\ tx.log[2] = Stmt("op", 1, TRUE)


\* ======================================================================
\* Writing typed values and reading them back
\* ======================================================================

\* insert(records) up to the first turn of the loop
Insert(records) ==
    /\ call.phase = "idle"
    /\ call' = Enter([NoCall EXCEPT !.op = "insert", !.records = records],
                     IF records = <<>> THEN "No records provided for insertion" ELSE "")
    /\ UNCHANGED <<rows, schema, poolVars, txVars, registryVars, managerVars, dbmVars>>

\* the body of insertTransaction: every record is formatted and inserted
RECURSIVE InsertAll(_, _)
InsertAll(rs, records) ==
    IF records = <<>> THEN rs
    ELSE InsertAll(Append(rs, InsertRecord(rs, Head(records))), Tail(records))

\* one invocation of the callback of insert, and the loop's reaction to it
AttemptInsert ==
    /\ call.phase = "running"
    /\ call.op = "insert"
    /\ \E outcome \in {"ok", "locked", "error"} :
          LET c == [call EXCEPT !.engineCalls = @ + 1]
          IN /\ call' = ExecuteWithErrorWrapper(
                            IF outcome = "ok"
                            THEN [c EXCEPT !.wrote = @ \o call.records]
                            ELSE c,
                            outcome)
             /\ rows' = IF outcome = "ok" THEN InsertAll(rows, call.records) ELSE rows
    /\ UNCHANGED <<schema, poolVars, txVars, registryVars, managerVars, dbmVars>>

\* the call has returned or thrown and its caller goes on
Finish ==
    /\ call.phase \in {"returned", "threw"}
    /\ call' = [NoCall EXCEPT !.wrote = call.wrote]
    /\ UNCHANGED <<rows, schema, poolVars, txVars, registryVars, managerVars, dbmVars>>

\* the column types of a schema
ColumnTypes == {"number", "float", "string", "boolean", "Date", "json"}

\* values the type of a column of each type admits (a json column by its
\* DataType: an object, an array, or a member of a Union of numbers or of
\* strings), besides null and undefined for a nullable column
TypedValues(type) ==
    {Null, Undefined} \cup
    CASE type \in {"number", "float"} -> {Num(v) : v \in Vals}
      [] type = "string" -> {Str(Raw("")), Str(Raw("x")), Str(JsonOf(Num(1)))}
      [] type = "boolean" -> {Bool(TRUE), Bool(FALSE)}
      [] type = "Date" -> {DateOf(v) : v \in Vals}
      [] type = "json" -> {Obj("a" :> Num(1)), Arr(<<Num(1)>>), Num(1),
                           Str(Raw("x")), Str(JsonOf(Num(1)))}

CodecInit ==
    /\ NoPool
    /\ TxIdle
    /\ NoManager
    /\ NoDbm
    /\ NoRegistry
    /\ rows = <<>>
    /\ call = NoCall
    /\ schema \in ColumnTypes

CodecNext ==
    \/ CanCall /\ Len(rows) < MaxRecords /\
           \E v \in TypedValues(schema) : Insert(<<Obj("a" :> v)>>)
    \/ CanCall /\ Insert(<<>>)
    \/ CanCall /\ Select(Undefined)
    \/ AttemptInsert
    \/ AttemptStatement
    \/ Finish

TypedSpec == CodecInit /\ [][CodecNext]_vars

\* ------------------------------------------------------------------ C13
\* the rows of the table are the records written, in the order written
Aligned == Len(rows) = Len(call.wrote)

\* C13: every value of a column's type, other than null and undefined,
\* that was inserted into the column is what select returns for it.
C13_RoundTrip ==
    (call.op = "select" /\ call.phase = "returned" /\ Aligned)
        => \A i \in 1..Len(call.data) :
              LET v == call.wrote[i].v["a"]
              IN v.t \notin {"null", "undefined"} => call.data[i]["a"] = v

\* ------------------------------------------------------------------ C14
\* C14: a column written with null or undefined holds SQL NULL.
C14_NullStored ==
    Aligned
        => \A i \in 1..Len(rows) :
              call.wrote[i].v["a"].t \in {"null", "undefined"} => rows[i]["a"] = SNull

\* ------------------------------------------------------------------ C11
\* the where-clause is exactly {OR: []}
OnlyEmptyOr(where) ==
    /\ where.t = "object"
    /\ DOMAIN where.v = {"OR"}
    /\ where.v["OR"].t = "array"
    /\ where.v["OR"].v = <<>>

\* C11: whatever the table holds, select({where: {OR: []}}) returns [] and
\* count({where: {OR: []}}) returns 0, at once and without any use of the
\* engine.
C11_EmptyOrReads ==
    (call.op \in {"select", "count"} /\ OnlyEmptyOr(call.where))
        => /\ call.phase = "returned"
           /\ call.data = <<>>
           /\ call.total = 0
           /\ call.engineCalls = 0
           /\ rows = call.before

\* count({where: {OR: []}}) has returned on a table that has rows
C11_Witness ==
    /\ call.op = "count"
    /\ OnlyEmptyOr(call.where)
    /\ call.phase = "returned"
    /\ rows # <<>>

\* ------------------------------------------------------------------ C12
\* C12: delete({where: {OR: []}}) and paginate({..., where: {OR: []}}) return
\* normally with an empty result (no row removed; data [] and total 0) and
\* send nothing to the engine.
C12_EmptyOrDeletePaginate ==
    (call.op \in {"delete", "paginate"} /\ OnlyEmptyOr(call.where))
        => /\ call.phase = "returned"
           /\ call.engineCalls = 0
           /\ call.data = <<>>
           /\ call.total = 0
           /\ rows = call.before


\* ------------------------------------------------------------------ C15
\* the rows the data query of paginate yields before LIMIT, for the where
\* and orderBy of call c on the present table
Sorted(c) ==
    LET found == Filter(rows, BuildWhereClause(c.where), ExtractWhereParameters(c.where))
    IN IF c.orderBy = NoOrder THEN found
       ELSE OrderBy(found, c.orderBy.column, c.orderBy.direction)

\* paginate(p, k).data for the where and orderBy of call c
PageData(c, p, k) == Map(Limit(Sorted(c), k, (p - 1) * k), RestoreDataTypes)

Ids(s) == {s[i]["id"] : i \in 1..Len(s)}

DbPath == "app.db"

\* The pool is either the one a manager built in initPool (or that create()
\* built), which `new AdvancedConnectionPool` does not enter in the registry,
\* or the one getPool(DbPath) built and registered.
RegistryInit ==
    /\ PoolInit(1..MaxConns, {CacheOn})
    /\ pools \in {{}, {DbPath}}
    /\ closeAll = "none"

\* DatabaseManager.closeAllPools(): close() on every value of the registry,
\* then pools.clear(), then the promise resolves
CloseAllPools ==
    /\ closeAll = "none"
    /\ closeAll' = "resolved"
    /\ pools' = {}
    /\ IF pools # {} THEN Close ELSE UNCHANGED <<poolVars, tableVars, txVars>>
    /\ UNCHANGED <<managerVars, dbmVars>>

RegistryClients == {1, 2}

RegistryNext ==
    \/ \E r \in RegistryClients :
          \/ AcquireAvailable(r)
          \/ AcquireCreate(r)
          \/ AcquireResume(r)
          \/ AcquireWait(r)
          \/ AcquireTimeout(r)
          \/ Release(r)
    \/ Tick
    \/ ClosePool
    \/ CloseAllPools

RegistrySpec == RegistryInit /\ [][RegistryNext]_vars

\* ------------------------------------------------------------------ C16
\* C16: when closeAllPools resolves, the pool has no open connection and
\* the registry is empty, whether the pool was registered by getPool or
\* attached to a manager by initPool.
C16_AllPoolsClosed ==
    [][(closeAll = "none" /\ closeAll' = "resolved")
          => (DOMAIN connections' = {} /\ pools' = {})]_vars


\* ======================================================================
\* The reaper on a pool that may hold more than its minimum
\* ======================================================================

\* config.maxConnections of the pool the reaper is watched on
ReapConns == 2

ReapInit == PoolInit({ReapConns}, {CacheOn}) /\ NoRegistry

ReapSpec == ReapInit /\ [][Next]_vars

\* ------------------------------------------------------------------ C17
\* C17: a pass of cleanupIdleConnections that starts with at least
\* minConnections connections ends with at least minConnections.
C17_ReapKeepsMin ==
    [][(Reap /\ Cardinality(DOMAIN connections) >= config.minConnections)
          => Cardinality(DOMAIN connections') >= config.minConnections]_vars


\* ======================================================================
\* BunSQLiteManager
\* ======================================================================

NotConnected == "Database not connected"

\* requireDatabase(): the error it throws, "" when it returns
RequireDatabase == IF manager.db = "none" THEN NotConnected ELSE ""

\* the record of an operation that has just ended
Done(op, error) ==
    [op |-> op, args |-> <<>>, threw |-> error # "", error |-> error,
     before |-> [db |-> manager.db, config |-> manager.config,
                 database |-> files.database, backup |-> files.backup]]

\* the operation throws error and touches nothing
Throw(op, error) ==
    /\ result' = Done(op, error)
    /\ UNCHANGED <<manager, files>>

OutsideManager == UNCHANGED <<poolVars, tableVars, txVars, registryVars, dbmVars>>

\* connect(config): the file is created when it is missing; opening it may fail
Connect ==
    /\ \E ok \in BOOLEAN :
          /\ manager' = IF ok THEN [db |-> "open", config |-> "set"]
                        ELSE [manager EXCEPT !.config = "set"]
          /\ files' = IF ok THEN [files EXCEPT !.database = File(@.tables)] ELSE files
          /\ result' = Done("connect", IF ok THEN "" ELSE "Failed to connect to database")
    /\ OutsideManager

\* disconnect()
Disconnect ==
    /\ manager' = [manager EXCEPT !.db = "none"]
    /\ result' = Done("disconnect", "")
    /\ UNCHANGED files
    /\ OutsideManager

\* backup(backupPath)
Backup ==
    /\ IF RequireDatabase # "" THEN Throw("backup", RequireDatabase)
       ELSE \E ok \in BOOLEAN :
               /\ files' = IF ok THEN [files EXCEPT !.backup = files.database] ELSE files
               /\ result' = Done("backup", IF ok THEN "" ELSE "Backup failed")
               /\ UNCHANGED manager
    /\ OutsideManager

\* restore(backupPath): the test is on config, which disconnect() keeps
Restore ==
    /\ IF manager.config = "none" THEN Throw("restore", NotConnected)
       ELSE IF ~files.backup.exists THEN Throw("restore", "Restore failed")
       ELSE \E stage \in {"write", "connect", "done"} :
               /\ files' = IF stage = "write" THEN files
                           ELSE [files EXCEPT !.database = files.backup]
               /\ manager' = [manager EXCEPT
                                 !.db = IF stage = "done" THEN "open" ELSE "none"]
               /\ result' = Done("restore", IF stage = "done" THEN "" ELSE "Restore failed")
    /\ OutsideManager

TableNames == {"users", "posts"}

\* CREATE TABLE IF NOT EXISTS for each of names: the tables that exist stay
\* as they are
WithTables(tables, names) ==
    [t \in DOMAIN tables \cup names |->
        IF t \in DOMAIN tables THEN tables[t] ELSE EmptyTable]

\* createTables(schema), created the tables its statements create; a
\* statement may fail after others have run
CreateTables(created) ==
    /\ IF RequireDatabase # "" THEN Throw("createTables", RequireDatabase)
       ELSE \E ok \in BOOLEAN, done \in SUBSET created :
               /\ ok => done = created
               /\ files' = [files EXCEPT !.database.tables = WithTables(@, done)]
               /\ result' = Done("createTables", IF ok THEN "" ELSE "engine")
               /\ UNCHANGED manager
    /\ OutsideManager

\* listTables() and getDatabaseStats() and analyzeMergeCompatibility(source):
\* they read, and analyzeMergeCompatibility catches what its reading throws
Read(op) ==
    /\ IF RequireDatabase # "" THEN Throw(op, RequireDatabase)
       ELSE /\ result' = Done(op, "")
            /\ UNCHANGED <<manager, files>>
    /\ OutsideManager

\* two tables hold a row of the same key
Conflicts(target, source) == DOMAIN target \cap DOMAIN source # {}

\* the rows of source written over those of target: REPLACE
Replaced(target, source) ==
    [k \in DOMAIN target \cup DOMAIN source |->
        IF k \in DOMAIN source THEN source[k] ELSE target[k]]

\* `if (mergeStrategy === 'replace') DELETE FROM tableName`
Cleared(table, mergeStrategy) ==
    IF mergeStrategy = "replace" THEN EmptyTable ELSE table

\* mergeDatabase(sourcePath, {conflictResolution}), source the file at
\* sourcePath.  Each table of the source is created when the target lacks
\* it, emptied under 'replace', and filled by insertDataBatch with plain
\* INSERTs in one transaction, which a row of a key the table holds (or the
\* engine) makes throw and roll back.  done are the tables copied, reached
\* the table whose insertDataBatch threw; any other step may throw as well.
MergeDatabase(source, conflictResolution) ==
    /\ IF RequireDatabase # "" THEN Throw("mergeDatabase", RequireDatabase)
       ELSE IF ~source.exists THEN Throw("mergeDatabase", "engine")
       ELSE \E done \in SUBSET DOMAIN source.tables :
            \E reached \in SUBSET (DOMAIN source.tables \ done) :
               LET target == WithTables(files.database.tables, done \cup reached)
               IN /\ Cardinality(reached) <= 1
                  /\ \A t \in done :
                        ~Conflicts(Cleared(target[t], conflictResolution),
                                   source.tables[t])
                  /\ files' = [files EXCEPT !.database.tables =
                        [t \in DOMAIN target |->
                            IF t \in done
                            THEN Replaced(Cleared(target[t], conflictResolution),
                                          source.tables[t])
                            ELSE IF t \in reached
                            THEN Cleared(target[t], conflictResolution)
                            ELSE target[t]]]
                  /\ result' = [Done("mergeDatabase",
                                     IF done = DOMAIN source.tables THEN ""
                                     ELSE "engine")
                                EXCEPT !.args = [source |-> source,
                                                 conflictResolution |-> conflictResolution]]
                  /\ UNCHANGED manager
    /\ OutsideManager

MergeStrategies == {"replace", "ignore", "fail"}

ManagerInit ==
    /\ NoPool
    /\ NoTable
    /\ TxIdle
    /\ NoRegistry
    /\ NoManager
    /\ NoDbm

ManagerNext ==
    \/ Connect
    \/ Disconnect
    \/ Backup
    \/ Restore
    \/ \E created \in SUBSET TableNames : CreateTables(created)
    \/ \E op \in {"listTables", "getDatabaseStats", "analyzeMergeCompatibility"} : Read(op)
    \/ \E source \in {Absent} \cup {File(WithTables(NoTables, t)) : t \in SUBSET TableNames},
          conflictResolution \in MergeStrategies :
          MergeDatabase(source, conflictResolution)

ManagerSpec == ManagerInit /\ [][ManagerNext]_vars

\* ------------------------------------------------------------------ C18
DatabaseOperations ==
    {"backup", "restore", "createTables", "listTables", "getDatabaseStats",
     "mergeDatabase", "analyzeMergeCompatibility"}

\* C18: a database operation issued while the manager holds no open
\* database (before connect() or after disconnect()) throws the
\* not-connected error and leaves the files and the connection as they were.
C18_NotConnected ==
    (result.op \in DatabaseOperations /\ result.before.db = "none")
        => /\ result.threw
           /\ result.error = NotConnected
           /\ files = [database |-> result.before.database,
                       backup |-> result.before.backup]
           /\ manager = [db |-> result.before.db, config |-> result.before.config]


\* ======================================================================
\* importFromJson
\* ======================================================================

\* The for loop over the batches from batch k on: insert (or upsert, which
\* for records without the primary key inserts as well) of a batch is one
\* transaction, and it throws for the batches in c.failing.  thrown tells
\* that the loop was left by `throw error`.
RECURSIVE ImportBatches(_, _, _)
ImportBatches(st, batches, k) ==
    IF k > Len(batches) THEN st
    ELSE IF k \in st.c.failing
    THEN IF st.c.conflictResolution = "fail"
         THEN [st EXCEPT !.thrown = TRUE]
         ELSE ImportBatches([st EXCEPT !.c.errors = Append(@, "Batch error"),
                                       !.c.skipped = @ + Len(batches[k])],
                            batches, k + 1)
    ELSE ImportBatches([st EXCEPT !.rows = InsertAll(@, batches[k]),
                                  !.c.imported = @ + Len(batches[k])],
                       batches, k + 1)

\* the outer try / catch of importFromJson: what is thrown inside is added
\* to errors and the stats are returned
ImportCaught(st) ==
    IF st.thrown
    THEN [st EXCEPT !.c.errors = Append(@, "Import failed"), !.c.phase = "returned"]
    ELSE [st EXCEPT !.c.phase = "returned"]

InvalidFormat == "Invalid JSON format: expected 'data' array"

\* importFromJson({data}, {conflictResolution, batchSize}); data is an
\* array of records, or Undefined for JSON without a data array
ImportFromJson(data, batchSize, conflictResolution, failing) ==
    /\ call.phase = "idle"
    /\ LET c == Enter([NoCall EXCEPT !.op = "importFromJson",
                                     !.records = IF data.t = "array" THEN data.v ELSE <<>>,
                                     !.batchSize = batchSize,
                                     !.conflictResolution = conflictResolution,
                                     !.failing = failing], "")
           st == [c |-> c, rows |-> rows, thrown |-> FALSE]
           end == ImportCaught(IF data.t # "array"
                               THEN [st EXCEPT !.thrown = TRUE,
                                               !.c.error = InvalidFormat]
                               ELSE ImportBatches(st, Chunk(data.v, batchSize), 1))
       IN /\ call' = end.c
          /\ rows' = end.rows
    /\ UNCHANGED <<schema, poolVars, txVars, registryVars, managerVars, dbmVars>>

ConflictResolutions == {"replace", "ignore", "fail"}

ImportNext ==
    \/ CanCall /\ Len(rows) <= MaxRows /\
          \E data \in {Arr(r) : r \in Records} \cup {Undefined},
             batchSize \in 1..MaxRecords,
             conflictResolution \in ConflictResolutions :
             \E failing \in SUBSET (1..Len(Chunk(IF data.t = "array" THEN data.v ELSE <<>>,
                                                 batchSize))) :
                ImportFromJson(data, batchSize, conflictResolution, failing)
    \/ Finish

ImportSpec == TableInit /\ [][ImportNext]_vars

\* ------------------------------------------------------------------ C19
\* the records of the batches of the call that are (not) in its failing set
RECURSIVE RecordsOf(_, _, _)
RecordsOf(batches, k, failed) ==
    IF k > Len(batches) THEN <<>>
    ELSE (IF (k \in call.failing) = failed THEN batches[k] ELSE <<>>)
         \o RecordsOf(batches, k + 1, failed)

\* C19: an import of a data array whose batch insert throws is itself
\* thrown to the caller under 'fail'; under 'ignore' it returns, with one
\* entry of errors per failed batch, the records of the failed batches
\* counted as skipped, and the records of every other batch imported.
C19_ImportConflict ==
    (call.op = "importFromJson" /\ call.phase # "idle" /\ call.error # InvalidFormat)
        => LET batches == Chunk(call.records, call.batchSize)
           IN /\ (call.conflictResolution = "fail" /\ call.failing # {})
                    => call.phase = "threw"
              /\ call.conflictResolution = "ignore"
                    => /\ call.phase = "returned"
                       /\ Len(call.errors) = Cardinality(call.failing)
                       /\ call.skipped = Len(RecordsOf(batches, 1, TRUE))
                       /\ call.imported = Len(RecordsOf(batches, 1, FALSE))
                       /\ rows = InsertAll(call.before, RecordsOf(batches, 1, FALSE))


\* ======================================================================
\* QueryBuilder
\* ======================================================================

\* a step of a chain: the method called and its argument
Step(method, conditions) == [method |-> method, conditions |-> conditions]

\* options.where after the steps of chain, from options.where = where:
\* where, whereLike and whereOr each assign options.where
RECURSIVE BuilderWhere(_, _)
BuilderWhere(where, chain) ==
    IF chain = <<>> THEN where
    ELSE LET step == Head(chain)
         IN BuilderWhere(
               CASE step.method = "where" -> step.conditions
                 [] step.method = "whereLike" -> Obj("LIKE" :> step.conditions)
                 [] step.method = "whereOr" -> Obj("OR" :> step.conditions),
               Tail(chain))

\* query().<chain>.execute(): select(options)
Execute(chain) == Select(BuilderWhere(Undefined, chain))

\* query().<chain>.count(): count({where: options.where})
BuilderCount(chain) == Count(BuilderWhere(Undefined, chain))

\* the arguments given to where, whereLike and whereOr
Steps ==
    {Step("where", Obj("a" :> Num(1))),
     Step("whereLike", Obj("id" :> Num(1))),
     Step("whereOr", Arr(<<Obj("a" :> Num(1)), Obj("a" :> Num(MaxVal))>>))}

\* chains that call each of the three methods at most once, in any order
Chains ==
    UNION {{chain \in [1..n -> Steps] :
               \A i, j \in 1..n : i # j => chain[i].method # chain[j].method} :
           n \in 0..Cardinality(Steps)}

BuilderNext ==
    \/ CanCall /\ \E chain \in Chains : Execute(chain)
    \/ CanCall /\ \E chain \in Chains : BuilderCount(chain)
    \/ AttemptStatement

BuilderSpec == TableInit /\ [][BuilderNext]_vars

\* ------------------------------------------------------------------ C20
\* the one where-clause of select that asks for all the conditions of a
\* chain together: {...a, LIKE: b, OR: c}
RECURSIVE Combined(_)
Combined(chain) ==
    IF chain = <<>> THEN <<>>
    ELSE LET step == Head(chain)
         IN (CASE step.method = "where" -> step.conditions.v
               [] step.method = "whereLike" -> "LIKE" :> step.conditions
               [] step.method = "whereOr" -> "OR" :> step.conditions)
            @@ Combined(Tail(chain))

\* the rows that satisfy all the conditions of a chain
Satisfying(chain) ==
    IF chain = <<>> THEN rows
    ELSE Filter(rows, BuildWhereClause(Obj(Combined(chain))),
                ExtractWhereParameters(Obj(Combined(chain))))

\* C20: execute() and count() of a chain of where / whereLike / whereOr, in
\* whatever order they were called, give the rows (the number of rows)
\* that satisfy the conditions of all the steps.
C20_BuilderConjunction ==
    \A chain \in Chains :
        (call.phase = "returned" /\ call.where = BuilderWhere(Undefined, chain))
            => /\ call.op = "select"
                    => call.data = Map(Satisfying(chain), RestoreDataTypes)
               /\ call.op = "count" => call.total = Len(Satisfying(chain))


\* ------------------------------------------------------------------ C21
\* C21: when an acquire() is rejected by its acquire timeout, totalErrors
\* grows by exactly one.
C21_TimeoutCounted ==
    [][\A r \in Requests :
          (req[r].st = "waiting" /\ req'[r].st = "timedout")
              => stats'.totalErrors = stats.totalErrors + 1]_vars


\* ======================================================================
\* The result cache at capacity
\* ======================================================================

\* the keys results are cached under; any string is a key
ResultKeys == {"", "a", "b"}

ResultCacheInit ==
    /\ PoolInit({1}, {[enableQueryCache |-> TRUE, enableStatementPooling |-> TRUE,
                       maxCacheSize |-> m] : m \in 1..MaxCacheSize})
    /\ NoRegistry

ResultCacheNext ==
    \/ \E key \in ResultKeys, ttl \in 0..MaxTtl : SetCachedQuery(key, ttl)
    \/ \E key \in ResultKeys : GetCachedQuery(key)
    \/ ClearCache
    \/ Reap
    \/ Tick

ResultCacheSpec == ResultCacheInit /\ [][ResultCacheNext]_vars

\* ------------------------------------------------------------------ C22
\* C22: the result cache never holds more than maxCacheSize entries, and a
\* setCachedQuery that arrives at capacity removes the oldest-inserted entry
\* and no other.
C22_CacheBounded ==
    /\ [](Len(queryCache) <= config.maxCacheSize)
    /\ [][(\E key \in ResultKeys, ttl \in 0..MaxTtl : SetCachedQuery(key, ttl))
          /\ Len(queryCache) >= config.maxCacheSize
             => CacheKeysOf(queryCache') \cup {Head(queryCache).key}
                   = CacheKeysOf(queryCache) \cup CacheKeysOf(queryCache')
                /\ Cardinality(CacheKeysOf(queryCache) \ CacheKeysOf(queryCache')) <= 1
                /\ Len(queryCache') <= config.maxCacheSize]_vars

\* ======================================================================
\* DatabaseManager.createTable
\* ======================================================================

\* `name.trim()` over the names explored
Trim(name) == IF name = " " THEN "" ELSE name

\* getSQLiteDataType over the column types explored
GetSQLiteDataType(column) == IF column.type = "number" THEN "INTEGER" ELSE "TEXT"

\* buildColumnConstraints: the constraints in the order they are pushed
\* (nullable, unique and default are left unset)
BuildColumnConstraints(column) ==
    (IF column.primary THEN <<"PRIMARY KEY">> ELSE <<>>)
    \o (IF column.type = "number" /\ column.autoIncrement
        THEN <<"AUTOINCREMENT">> ELSE <<>>)
    \o (IF ~column.primary THEN <<"NOT NULL">> ELSE <<>>)

BuildColumnDefinition(column) ==
    [name |-> column.name, dataType |-> GetSQLiteDataType(column),
     constraints |-> BuildColumnConstraints(column)]

\* buildCreateTableQuery: CREATE TABLE IF NOT EXISTS name (definitions)
BuildCreateTableQuery(tableSchema) ==
    [name |-> tableSchema.name,
     columns |-> [i \in DOMAIN tableSchema.columns |->
                     BuildColumnDefinition(tableSchema.columns[i])]]

\* validateTableSchema: the error it throws, "" when it returns
ValidateTableSchema(tableSchema) ==
    IF tableSchema.name = "" \/ Trim(tableSchema.name) = ""
    THEN "Table name cannot be empty"
    ELSE IF Len(tableSchema.columns) = 0
    THEN "Table must have at least one column"
    ELSE IF ~\E i \in DOMAIN tableSchema.columns : tableSchema.columns[i].primary
    THEN "must have at least one primary key column"
    ELSE IF Len(tableSchema.columns)
              # Cardinality({tableSchema.columns[i].name : i \in DOMAIN tableSchema.columns})
    THEN "has duplicate column names"
    ELSE ""

\* query.run() of the statement in the engine: the error it raises, "" when
\* it runs.  AUTOINCREMENT is grammatical only after PRIMARY KEY; a table
\* that exists is left alone; a new table has at most one PRIMARY KEY column.
RunCreate(query) ==
    IF \E i \in DOMAIN query.columns :
          query.columns[i].constraints # <<>>
          /\ Head(query.columns[i].constraints) = "AUTOINCREMENT"
    THEN "syntax error"
    ELSE IF query.name \in DOMAIN catalog THEN ""
    ELSE IF Cardinality({i \in DOMAIN query.columns :
                            query.columns[i].constraints # <<>>
                            /\ Head(query.columns[i].constraints) = "PRIMARY KEY"}) > 1
    THEN "more than one primary key"
    ELSE ""

\* createTable(tableSchema)
CreateTable(tableSchema) ==
    /\ LET invalid == ValidateTableSchema(tableSchema)
           query == BuildCreateTableQuery(tableSchema)
           error == IF invalid # "" THEN invalid ELSE RunCreate(query)
       IN /\ last' = [op |-> "createTable", args |-> tableSchema,
                       threw |-> error # "", error |-> error]
          /\ catalog' = IF error = "" /\ query.name \notin DOMAIN catalog
                        THEN [t \in DOMAIN catalog \cup {query.name} |->
                                 IF t = query.name
                                 THEN [columns |-> query.columns, rows |-> EmptyTable]
                                 ELSE catalog[t]]
                        ELSE catalog
    /\ UNCHANGED <<work, statement, poolVars, tableVars, txVars, registryVars,
                   managerVars>>

TableSchemaNames == {"", " ", "t"}

ColumnsSchema ==
    [name : {"id", "x"}, type : {"number", "string"},
     primary : BOOLEAN, autoIncrement : BOOLEAN]

\* no column, one column, two columns
ColumnLists ==
    {<<>>} \cup {<<c>> : c \in ColumnsSchema} \cup {<<c, d>> : c, d \in ColumnsSchema}

IdColumn == [name |-> "id", type |-> "number", primary |-> TRUE, autoIncrement |-> TRUE]

\* the descriptors explored: every column list under the name "t", and a
\* column list that passes and one that does not under the other names
TableSchemas ==
    [name : {"t"}, columns : ColumnLists]
    \cup [name : TableSchemaNames, columns : {<<>>, <<IdColumn>>}]

SchemaInit ==
    /\ NoPool
    /\ NoTable
    /\ TxIdle
    /\ NoRegistry
    /\ NoManager
    /\ NoDbm

SchemaNext == \E tableSchema \in TableSchemas : CreateTable(tableSchema)

SchemaSpec == SchemaInit /\ [][SchemaNext]_vars

\* ------------------------------------------------------------------ C23
\* the descriptors the claim names: empty name, no columns, no primary
\* column, duplicate column names, autoIncrement on a non-integer column
EmptyName(d) == Trim(d.name) = ""

NoColumns(d) == d.columns = <<>>

NoPrimary(d) == \A i \in DOMAIN d.columns : ~d.columns[i].primary

DuplicateColumns(d) ==
    \E i, j \in DOMAIN d.columns : i # j /\ d.columns[i].name = d.columns[j].name

AutoIncNonInt(d) ==
    \E i \in DOMAIN d.columns :
       d.columns[i].autoIncrement /\ d.columns[i].type # "number"

\* C23: createTable throws, and creates nothing, for every descriptor with
\* an empty name, no columns, no primary column, duplicate column names or
\* autoIncrement on a column that is not an integer column.
C23_InvalidSchemaRejected ==
    [][(last'.op = "createTable"
        /\ (EmptyName(last'.args) \/ NoColumns(last'.args) \/ NoPrimary(last'.args)
            \/ DuplicateColumns(last'.args) \/ AutoIncNonInt(last'.args)))
          => last'.threw /\ catalog' = catalog]_vars

\* the four cases validateTableSchema tests are rejected
C23_ValidatedRejected ==
    [][(last'.op = "createTable"
        /\ (EmptyName(last'.args) \/ NoColumns(last'.args) \/ NoPrimary(last'.args)
            \/ DuplicateColumns(last'.args)))
          => last'.threw /\ catalog' = catalog]_vars
\* ------------------------------------------------------------------ C24
\* C24: whenever a waiter is queued the pool is exhausted: `available` is
\* empty and the pool holds maxConnections connections; a release() or a
\* timer that destroys a connection leaves no waiter queued under a pool
\* with room.
C24_QueuedOnlyWhenExhausted ==
    waitingQueue # <<>>
        => /\ availableConnections = <<>>
           /\ Cardinality(DOMAIN connections) = config.maxConnections
\* ======================================================================
\* DatabaseInitializer.executeWithPool, with useCache false.  Every acquire()
\* of this specification is the one executeWithPool awaits.
\* ======================================================================

\* what queryFn(connection.database) does: it returns a value, it throws, or
\* (an async queryFn that awaits) it returns a promise that is still pending
QueryFnOutcomes == {"returned", "threw", "pending"}

\* the continuation after `await this.pool.acquire()`: queryFn is called,
\* its result is returned as it is, and `finally` releases the connection
RunQueryFn(r, outcome) ==
    /\ work[r].st = "none"
    /\ work' = [work EXCEPT ![r] = [st |-> outcome, conn |-> req[r].conn]]
    /\ ReleaseConnection(r)
    /\ UNCHANGED <<catalog, last, statement, tableVars, txVars, registryVars,
                   managerVars>>

\* the promise queryFn returned settles: its work on the connection is over
Settle(r) ==
    /\ work[r].st = "pending"
    /\ work' = [work EXCEPT ![r].st = "settled"]
    /\ UNCHANGED <<catalog, last, statement, poolVars, tableVars, txVars,
                   registryVars, managerVars>>

PooledQueryNext ==
    \/ \E r \in Requests : AcquireAvailable(r)
    \/ \E r \in Requests : AcquireCreate(r)
    \/ \E r \in Requests : AcquireResume(r)
    \/ \E r \in Requests : AcquireWait(r)
    \/ \E r \in Requests : AcquireTimeout(r)
    \/ \E r \in Requests, outcome \in QueryFnOutcomes : RunQueryFn(r, outcome)
    \/ \E r \in Requests : Settle(r)
    \/ Tick

PooledQuerySpec == Init /\ [][PooledQueryNext]_vars

\* ------------------------------------------------------------------ C25
\* C25: while the work of a queryFn is not over (the promise it returned is
\* pending) its connection is still held by its executeWithPool call and in
\* use, so no other caller holds it; the connection is released once, when
\* the work is over.
C25_HeldUntilSettled ==
    \A r \in Requests :
       work[r].st = "pending"
          => /\ req[r].st = "holding"
             /\ req[r].conn = work[r].conn
             /\ \A s \in Requests \ {r} : req[s].conn # work[r].conn

\* a second caller holds the connection an unsettled queryFn is working on
C25_SharedConnection ==
    \E r \in Requests : \E s \in Requests \ {r} :
       /\ work[r].st = "pending"
       /\ req[s].st = "holding"
       /\ req[s].conn = work[r].conn
       /\ work[r].conn \in DOMAIN connections
\* ------------------------------------------------------------------ C26
\* C26: a call of bulkInsert persists each of its records at most once,
\* whatever the retry loop re-runs: the table never holds more new rows than
\* the call was given records.
C26_PersistedAtMostOnce ==
    call.op = "bulkInsert"
        => Len(rows) - Len(call.before) <= Len(call.records)
\* ======================================================================
\* A pool built by create(): initialize() has armed the reaper, and only
\* close() clears it, so the reaper is off exactly when close() has run.
\* ======================================================================
CreatedInit == Init /\ cleanupInterval

CreatedSpec == CreatedInit /\ [][Next]_vars

Closed == ~cleanupInterval

\* ------------------------------------------------------------------ C27
\* C27: once close() has completed the pool holds no open connection; an
\* acquire() made afterwards creates no connection and is handed none; and
\* release() of a connection obtained before close() changes nothing of the
\* pool.
C27_ClosedStaysClosed ==
    /\ [](Closed => connections = <<>>)
    /\ [][Closed =>
             /\ nextConn' = nextConn
             /\ \A r \in Requests : req'[r].st = "holding" => req[r].st = "holding"
             /\ (\E r \in Requests : Release(r))
                   => UNCHANGED <<connections, availableConnections, waitingQueue,
                                  stats, preparedStatements, queryCache>>]_vars

\* ------------------------------------------------------------------ C28
\* the conditions of a predicate with their values, in the order in which
\* the statement reads: the groups, the alternatives of OR, the equalities
ConditionsOf(where) ==
    IF ~Truthy(where) THEN <<>>
    ELSE IF Keys(where) = <<>> THEN <<>>
    ELSE Flatten(Map(GroupKeys, LAMBDA k :
                IF Has(where, k)
                THEN Map(Keys(where.v[k]), LAMBDA key :
                        [col |-> key, op |-> OpOf(k), value |-> where.v[k].v[key]])
                ELSE <<>>))
         \o (IF IsOrList(where)
             THEN Flatten(Map(where.v["OR"].v, LAMBDA condition :
                     IF Has(condition, "LIKE")
                     THEN Map(Keys(condition.v["LIKE"]), LAMBDA key :
                             [col |-> key, op |-> "LIKE",
                              value |-> condition.v["LIKE"].v[key]])
                     ELSE Map(Keys(condition), LAMBDA key :
                             [col |-> key, op |-> "=", value |-> condition.v[key]])))
             ELSE <<>>)
         \o Map(RegularFields(where), LAMBDA key :
                   [col |-> key, op |-> "=", value |-> where.v[key]])

\* the assignments of an update with their values
AssignmentsOf(c) ==
    IF c.op = "update"
    THEN Map(Keys(c.values), LAMBDA key :
                [col |-> key, op |-> "=", value |-> c.values.v[key]])
    ELSE <<>>

\* the `?` placeholders of the statement, from left to right
Placeholders(queryString) == queryString.set \o Terms(queryString.where)

\* C28: the statement handed to the engine has as many `?` placeholders as
\* the parameter vector has entries, the i-th parameter is the encoded value
\* of the condition that wrote the i-th placeholder (the SET values of an
\* update first), and the statement text holds columns and operators only.
C28_ParametersMatchPlaceholders ==
    (call.engineCalls > 0
     /\ call.op \in {"update", "delete", "select", "count", "paginate"})
        => LET conditions == AssignmentsOf(call) \o ConditionsOf(call.where)
               marks == Placeholders(QueryString(call))
           IN /\ Len(marks) = Len(call.params)
              /\ Len(marks) = Len(conditions)
              /\ \A i \in 1..Len(marks) :
                    /\ DOMAIN marks[i] = {"col", "op"}
                    /\ marks[i] = Term(conditions[i].col, conditions[i].op)
                    /\ call.params[i] = ParseParameter(conditions[i].value)

\* an update has run whose SET value and WHERE values differ
C28_Witness ==
    /\ call.op = "update"
    /\ call.phase = "returned"
    /\ Len(call.params) = 3
    /\ call.params[1] # call.params[2]
    /\ IsOrList(call.where)
\* ------------------------------------------------------------------ C29
\* C29: the statement getPreparedStatement(key, query, db) returns for an
\* open connection db was prepared for query on db itself, hence on a
\* connection that is still open, never on another or a destroyed one.
C29_StatementOfOpenConnection ==
    [][statement' # statement
          => /\ statement'.returned.query = statement'.query
             /\ statement'.returned.conn = statement'.db
             /\ statement'.returned.conn \in DOMAIN connections']_vars
\* ======================================================================
\* mergeDatabase of DatabaseManager and of BunSQLiteManager, on the rows
\* ======================================================================

\* INSERT OR IGNORE: the rows of target stay, the other rows of source come
Ignored(target, source) == Replaced(source, target)

\* `INSERT OR <action> INTO t SELECT * FROM source_db.t`: the rows of t
\* afterwards, when the statement runs
InsertOr(conflictResolution, target, source) ==
    IF conflictResolution = "replace" THEN Replaced(target, source)
    ELSE IF conflictResolution = "ignore" THEN Ignored(target, source)
    ELSE target \* ABORT: only run without a conflict, see below

\* DatabaseManager.mergeDatabase(sourcePath, {conflictResolution}) without
\* tablesFilter.  done are the tables merged: a table the target lacks is
\* copied (CREATE TABLE ... AS SELECT, which keeps no constraint), one it
\* holds takes INSERT OR REPLACE / IGNORE / ABORT.  A statement that throws
\* changes nothing; on an existing table it is skipped with a warning
\* unless conflictResolution is 'fail'; anything else that throws (the file
\* missing, ATTACH, CREATE, DETACH) ends the merge with an error.
DatabaseManagerMerge(source, conflictResolution) ==
    /\ IF ~source.exists
       THEN /\ last' = [op |-> "mergeDatabase",
                        args |-> [source |-> source,
                                  conflictResolution |-> conflictResolution],
                        threw |-> TRUE, error |-> "Failed to merge database"]
            /\ UNCHANGED catalog
       ELSE \E done \in SUBSET DOMAIN source.tables, error \in BOOLEAN :
               /\ conflictResolution = "fail"
                     => \A t \in done \cap DOMAIN catalog :
                           ~Conflicts(catalog[t].rows, source.tables[t])
               /\ ~error
                     => \A t \in DOMAIN source.tables \ done :
                           t \in DOMAIN catalog /\ conflictResolution # "fail"
               /\ catalog' =
                     [t \in DOMAIN catalog \cup done |->
                         IF t \notin done THEN catalog[t]
                         ELSE IF t \notin DOMAIN catalog
                         THEN [columns |-> <<>>, rows |-> source.tables[t]]
                         ELSE [catalog[t] EXCEPT !.rows =
                                  IF conflictResolution = "fail"
                                  THEN Replaced(@, source.tables[t])
                                  ELSE InsertOr(conflictResolution, @, source.tables[t])]]
               /\ last' = [op |-> "mergeDatabase",
                           args |-> [source |-> source,
                                     conflictResolution |-> conflictResolution],
                           threw |-> error,
                           error |-> IF error THEN "Failed to merge database" ELSE ""]
    /\ UNCHANGED <<work, statement, poolVars, tableVars, txVars, registryVars,
                   managerVars>>

RowKeys == {"k1", "k2"}

\* what a table can hold: rows of some of the keys
TableContents == UNION {[K -> Vals] : K \in SUBSET RowKeys}

\* the databases explored: none, or one with the table users
MergeFiles ==
    {Absent, File(NoTables)} \cup {File([t \in {"users"} |-> c]) : c \in TableContents}

\* Either a DatabaseManager or a connected BunSQLiteManager over a database
\* with the table users
MergeInit ==
    /\ NoPool
    /\ NoTable
    /\ TxIdle
    /\ NoRegistry
    /\ last = NoLast
    /\ work = [r \in 1..MaxRequests |-> NoWork]
    /\ statement = NoStatement
    /\ result = NoResult
    /\ \E c \in TableContents :
          \/ /\ catalog = [t \in {"users"} |->
                              [columns |-> <<BuildColumnDefinition(IdColumn)>>,
                               rows |-> c]]
             /\ manager = [db |-> "none", config |-> "none"]
             /\ files = [database |-> Absent, backup |-> Absent]
          \/ /\ catalog = NoTables
             /\ manager = [db |-> "open", config |-> "set"]
             /\ files = [database |-> File([t \in {"users"} |-> c]),
                         backup |-> Absent]

MergeNext ==
    \/ /\ manager.db = "none"
       /\ \E source \in MergeFiles, conflictResolution \in MergeStrategies :
             DatabaseManagerMerge(source, conflictResolution)
    \/ /\ manager.db # "none"
       /\ \E source \in MergeFiles, conflictResolution \in MergeStrategies :
             MergeDatabase(source, conflictResolution)

MergeSpec == MergeInit /\ [][MergeNext]_vars

\* ------------------------------------------------------------------ C30
\* every row of target whose key no row of source has is in after, unchanged
KeepsOtherRows(target, source, after) ==
    \A k \in DOMAIN target \ DOMAIN source :
       k \in DOMAIN after /\ after[k] = target[k]

\* the rows of table t of the source of a merge
SourceRows(args, t) ==
    IF t \in DOMAIN args.source.tables THEN args.source.tables[t] ELSE EmptyTable

\* C30: a merge with conflictResolution 'replace' that returns leaves every
\* row of a target table whose key does not occur in the source table of
\* that name in place and unchanged, in DatabaseManager.mergeDatabase and in
\* BunSQLiteManager.mergeDatabase alike.
C30_ReplaceKeepsOtherRows ==
    [][/\ (last' # last /\ last'.op = "mergeDatabase" /\ ~last'.threw
           /\ last'.args.conflictResolution = "replace")
          => \A t \in DOMAIN catalog :
                /\ t \in DOMAIN catalog'
                /\ KeepsOtherRows(catalog[t].rows, SourceRows(last'.args, t),
                                  catalog'[t].rows)
       /\ (result' # result /\ result'.op = "mergeDatabase" /\ ~result'.threw)
          => (result'.args.conflictResolution = "replace"
              => \A t \in DOMAIN files.database.tables :
                    /\ t \in DOMAIN files'.database.tables
                    /\ KeepsOtherRows(files.database.tables[t],
                                      SourceRows(result'.args, t),
                                      files'.database.tables[t]))]_vars

\* the half of it about DatabaseManager.mergeDatabase
C30_DatabaseManagerKeeps ==
    [][(last' # last /\ last'.op = "mergeDatabase"
        /\ last'.args.conflictResolution = "replace")
          => \A t \in DOMAIN catalog :
                /\ t \in DOMAIN catalog'
                /\ KeepsOtherRows(catalog[t].rows, SourceRows(last'.args, t),
                                  catalog'[t].rows)]_vars
====
